---- MODULE Spec2Model ----
(***************************************************************************)
(* Model of align_and_metrics.py (MIKE_IO_Calibration-Validation):         *)
(* align_series, calc_stats and compare_speed_stats.                        *)
(*                                                                          *)
(* Numbers.  A float is a record [k, n, d]:                                 *)
(*   k = "fin"  : the rational n/d (d > 0, lowest terms);                   *)
(*   k = "root" : the irrational sign(n) * sqrt(|n|/d), the result of a     *)
(*                square root that is not rational;                         *)
(*   k = "nan", "pinf", "ninf" : NaN, +inf, -inf.                           *)
(* Arithmetic is exact (rounding of binary floating point is not           *)
(* modelled); NaN and the infinities follow IEEE 754.                       *)
(*                                                                          *)
(* Time.  A timestamp is an integer number of time units; a tolerance and   *)
(* a resample rule are a number of time units.  A series is a sequence of   *)
(* rows [t, v] (index label, value) in the order the pandas Series holds    *)
(* them.                                                                    *)
(***************************************************************************)
EXTENDS Integers, Sequences, FiniteSets, TLC

VARIABLES
    s_model,       \* align_series: first argument, the model series
    s_obs,         \* align_series: second argument, the observed series
    method,        \* align_series: "inner" | "outer" | "asof"
    tolerance,     \* align_series: asof tolerance, in time units
    resample,      \* align_series: 0 for None, else the bucket width
    how_resample,  \* align_series: "mean" | "median" | "sum"
    aligned,       \* what align_series returned or raised
    series_names,  \* the names of the two input series of align_series
    aligned_columns, \* the column labels of the table align_series returned
    obs,           \* calc_stats: first argument
    mod,           \* calc_stats: second argument
    stats,         \* what calc_stats returned
    datasets,      \* {key: Dataset}: what load_dfs0s returns, the extractors' input
    dfs0_key,      \* get_dfs0_speed_series: the dataset key
    item_query,    \* get_dfs0_speed_series: the item query
    mat_data,      \* {key: {variable: value}}: what load_mat_files returns
    mat_key,       \* get_hg_speed_series: the file key
    bin_index,     \* get_hg_speed_series: the bin
    frame,         \* the locals of the running extractor (ds, t, arr, i; md, ps, b)
    series,        \* what the extractor returned or raised
    series_base,   \* whose memory the values of the returned series are: "fresh"
                   \* (the series' own copy) or "mat_data" (the bin's Speed array)
    caller,        \* "compare_speed_stats" when it runs the extractors, else ""
    file_list,     \* the bulk loaders: the paths to load
    disk,          \* the files: what is at each path
    next_file,     \* the bulk loaders: position of the loop in file_list
    results,       \* the bulk loaders: the dict (or bundle) under construction
    frames,        \* dfs0_to_dataframes: what it returned
    console,       \* the lines printed
    dfs0file,      \* Dfs0File.__init__: the object under construction
    plot_args,     \* plot_dfs0_items_stacked: ds, item_names, panels
    plot_result,   \* plot_dfs0_items_stacked: what it raised
    pc             \* position of the caller

alignVars == <<s_model, s_obs, method, tolerance, resample, how_resample,
               aligned, series_names, aligned_columns, obs, mod, stats>>

extractVars == <<datasets, dfs0_key, item_query, mat_data, mat_key, bin_index,
                 frame, series, series_base, caller>>

loadVars == <<file_list, disk, next_file, results, frames, console, dfs0file>>

plotVars == <<plot_args, plot_result>>

vars == <<alignVars, extractVars, loadVars, plotVars, pc>>

----------------------------------------------------------------------------
(* Bounds of the model. *)

\* longest input series of align_series
MaxLen == 2
\* timestamps are 0..MaxTime
MaxTime == 2
\* finite input values of align_series are 1..MaxVal
MaxVal == 2
\* asof tolerances are 0..MaxTol
MaxTol == 1
\* resample rules are None and the widths 2..MaxRule
MaxRule == 2
\* longest model series of a call that settles the arguments of align_series
MaxArgLen == 3
\* longest input array of calc_stats
MaxN == 3
\* longest list of paths given to a bulk loader
MaxFiles == 3
\* longest item name and longest item query, in characters
MaxName == 2
\* most items of a dataset
MaxItems == 3
\* the axes of a dataset's array have 0..MaxDim entries
MaxDim == 3
\* most panels of a plot request, most item names of a panel or of item_names
MaxPanels == 2
MaxPanelItems == 2
\* most columns of the table given to Dfs0File
MaxColumns == 3
\* finite input values of calc_stats are 0..MaxStat
MaxStat == 1

----------------------------------------------------------------------------
(* Floats. *)

Abs(i) == IF i < 0 THEN -i ELSE i

Sign(i) == IF i < 0 THEN -1 ELSE IF i = 0 THEN 0 ELSE 1

RECURSIVE GCD(_, _)
GCD(a, b) == IF b = 0 THEN a ELSE GCD(b, a % b)

\* the float n/d, d # 0
Fin(n, d) ==
    LET g == GCD(Abs(n), Abs(d))
        s == IF d < 0 THEN -1 ELSE 1
    IN  [k |-> "fin", n |-> s * (n \div g), d |-> s * (d \div g)]

Num(i) == [k |-> "fin", n |-> i, d |-> 1]

NaN == [k |-> "nan", n |-> 0, d |-> 1]

PInf == [k |-> "pinf", n |-> 0, d |-> 1]

NInf == [k |-> "ninf", n |-> 0, d |-> 1]

\* np.isnan / pandas isna
IsNaN(x) == x.k = "nan"

\* np.isfinite
IsFinite(x) == x.k \in {"fin", "root"}

Neg(x) ==
    CASE x.k = "pinf" -> NInf
      [] x.k = "ninf" -> PInf
      [] x.k = "nan" -> NaN
      [] OTHER -> [x EXCEPT !.n = -x.n]

\* x + y on rationals, NaN and the infinities
Add(x, y) ==
    IF IsNaN(x) \/ IsNaN(y) THEN NaN
    ELSE IF x.k = "fin" /\ y.k = "fin" THEN Fin(x.n * y.d + y.n * x.d, x.d * y.d)
    ELSE IF x.k = "fin" THEN y
    ELSE IF y.k = "fin" THEN x
    ELSE IF x.k = y.k THEN x
    ELSE NaN

Sub(x, y) == Add(x, Neg(y))

\* x * y on rationals
Mul(x, y) == Fin(x.n * y.n, x.d * y.d)

\* x / y on rationals, y # 0
Div(x, y) == Fin(x.n * y.d, x.d * y.n)

\* x / c for a count c > 0
DivInt(x, c) == IF x.k = "fin" THEN Fin(x.n, x.d * c) ELSE x

\* x < y on rationals and the infinities
Less(x, y) ==
    IF x.k = "fin" /\ y.k = "fin" THEN x.n * y.d < y.n * x.d
    ELSE (x.k = "ninf" /\ y.k # "ninf") \/ (x.k = "fin" /\ y.k = "pinf")

AbsNum(x) == IF x.k = "fin" THEN Fin(Abs(x.n), x.d) ELSE IF IsNaN(x) THEN NaN ELSE PInf

\* the integer r with r*r = i, or -1
IntRoot(i) ==
    IF \E r \in 0..i : r * r = i THEN CHOOSE r \in 0..i : r * r = i ELSE -1

\* s * sqrt(q) for a rational q >= 0 and a sign s
SignedSqrt(s, q) ==
    IF IntRoot(q.n) >= 0 /\ IntRoot(q.d) >= 0
    THEN Fin(s * IntRoot(q.n), IntRoot(q.d))
    ELSE [k |-> "root", n |-> s * q.n, d |-> q.d]

\* np.sqrt of a rational q >= 0
Sqrt(q) == SignedSqrt(1, q)

\* x ** 2 of a finite float
Sq(x) == IF x.k = "root" THEN Fin(Abs(x.n), x.d) ELSE Fin(x.n * x.n, x.d * x.d)

RECURSIVE SumSeq(_)
SumSeq(a) == IF a = <<>> THEN Num(0) ELSE Add(Head(a), SumSeq(Tail(a)))

\* np.mean of a non-empty array
Mean(a) == DivInt(SumSeq(a), Len(a))

----------------------------------------------------------------------------
(* calc_stats *)

RECURSIVE Compress(_, _)
\* a[mask]: the elements of a at the positions where mask is TRUE
Compress(a, mask) ==
    IF a = <<>> THEN <<>>
    ELSE (IF Head(mask) THEN <<Head(a)>> ELSE <<>>) \o Compress(Tail(a), Tail(mask))

\* a mask that looks at the observed side only (a bug)
FiniteMaskObsOnly(o, m) == [i \in 1..Len(o) |-> IsFinite(o[i])]

\* mask = np.isfinite(obs) & np.isfinite(mod)
FiniteMask(o, m) == [i \in 1..Len(o) |-> IsFinite(o[i]) /\ IsFinite(m[i])]

\* mod - obs, element by element
Diff(m, o) == [i \in 1..Len(o) |-> Sub(m[i], o[i])]

\* the mean of |mod - obs| (a bug: the line of mae, copied)
BiasAbsolute(o, m) == Mean([i \in 1..Len(o) |-> AbsNum(Sub(m[i], o[i]))])

\* bias = np.mean(mod - obs)
Bias(o, m) == Mean(Diff(m, o))

\* mae = np.mean(np.abs(mod - obs))
MAE(o, m) == Mean([i \in 1..Len(o) |-> AbsNum(Diff(m, o)[i])])

\* rmse = np.sqrt(np.mean((mod - obs) ** 2))
RMSE(o, m) == Sqrt(Mean([i \in 1..Len(o) |-> Sq(Diff(m, o)[i])]))

\* x - np.mean(x)
Centered(x) == [i \in 1..Len(x) |-> Sub(x[i], Mean(x))]

\* np.cov(x, y)[i, j] (ddof = 1), Len(x) > 1
Cov(x, y) ==
    DivInt(SumSeq([i \in 1..Len(x) |-> Mul(Centered(x)[i], Centered(y)[i])]),
           Len(x) - 1)

\* np.corrcoef(x, y)[0, 1]: c / stddev[:, None] / stddev[None, :]; 0/0 is NaN
CorrCoef(x, y) ==
    LET c00 == Cov(x, x)
        c11 == Cov(y, y)
        c01 == Cov(x, y)
    IN  IF c00.n = 0 \/ c11.n = 0 THEN NaN
        ELSE SignedSqrt(Sign(c01.n), Div(Mul(c01, c01), Mul(c00, c11)))

\* the guard off by one (a bug: n > 2 in place of n > 1)
CorrelationGuardTwo(o, m) == IF Len(o) > 2 THEN CorrCoef(o, m) ELSE NaN

\* corr = np.corrcoef(obs, mod)[0, 1] if n > 1 else np.nan
Correlation(o, m) == IF Len(o) > 1 THEN CorrCoef(o, m) ELSE NaN

\* denom = np.sum((obs - np.mean(obs)) ** 2)
Denom(o) == SumSeq([i \in 1..Len(o) |-> Sq(Centered(o)[i])])

\* the deviations taken from the model mean (a bug)
NSEModelMean(o, m) ==
    IF Less(Num(0), Denom(m))
    THEN Sub(Num(1), Div(SumSeq([i \in 1..Len(o) |-> Sq(Diff(m, o)[i])]), Denom(m)))
    ELSE NaN

\* the ratio without "1 -" (a bug)
NSEWithoutOneMinus(o, m) ==
    IF Less(Num(0), Denom(o))
    THEN Div(SumSeq([i \in 1..Len(o) |-> Sq(Diff(o, m)[i])]), Denom(o))
    ELSE NaN

\* nse = 1 - np.sum((obs - mod) ** 2) / denom if denom > 0 else np.nan
NSE(o, m) ==
    IF Less(Num(0), Denom(o))
    THEN Sub(Num(1), Div(SumSeq([i \in 1..Len(o) |-> Sq(Diff(o, m)[i])]), Denom(o)))
    ELSE NaN

\* "R2": (corr ** 2) if np.isfinite(corr) else np.nan
R2(corr) == IF IsFinite(corr) THEN Sq(corr) ELSE NaN

\* the record of a non-empty sample
StatsRecord(o, m) ==
    LET corr == Correlation(o, m)
    IN  [N |-> Len(o), Bias |-> Bias(o, m), MAE |-> MAE(o, m), RMSE |-> RMSE(o, m),
         Correlation |-> corr, R2 |-> R2(corr), NSE |-> NSE(o, m)]

\* an empty sample gets a full record (a bug: no early return)
calc_statsNoEarlyReturn(o, m) ==
    LET mask == FiniteMask(o, m)
        fo == Compress(o, mask)
        fm == Compress(m, mask)
    IN  IF Len(fo) = 0
        THEN [N |-> 0, Bias |-> NaN, MAE |-> NaN, RMSE |-> NaN,
              Correlation |-> NaN, R2 |-> NaN, NSE |-> NaN]
        ELSE StatsRecord(fo, fm)

\* if n == 0: return {"N": 0}
calc_stats(o, m) ==
    LET mask == FiniteMask(o, m)
        fo == Compress(o, mask)
        fm == Compress(m, mask)
    IN  IF Len(fo) = 0 THEN [N |-> 0] ELSE StatsRecord(fo, fm)

----------------------------------------------------------------------------
(* align_series *)

\* the index labels of a series
Times(s) == [i \in 1..Len(s) |-> s[i].t]

\* the values of a series
Values(s) == [i \in 1..Len(s) |-> s[i].v]

\* the index holds a label twice (not Index.is_unique)
HasDup(s) == \E i, j \in 1..Len(s) : i < j /\ s[i].t = s[j].t

\* the label t occurs in the index
HasTime(s, t) == \E i \in 1..Len(s) : s[i].t = t

\* the value at label t of a series with a unique index that holds t
At(s, t) == s[CHOOSE i \in 1..Len(s) : s[i].t = t].v

RECURSIVE InsertRow(_, _)
\* r put after the rows of a sorted series whose label is not greater
InsertRow(sorted, r) ==
    IF sorted = <<>> THEN <<r>>
    ELSE IF r.t < Head(sorted).t THEN <<r>> \o sorted
    ELSE <<Head(sorted)>> \o InsertRow(Tail(sorted), r)

RECURSIVE sort_index(_)
\* Series.sort_index(): rows by increasing label, equal labels in input order
sort_index(s) ==
    IF s = <<>> THEN <<>>
    ELSE InsertRow(sort_index(SubSeq(s, 1, Len(s) - 1)), s[Len(s)])

RECURSIVE InsertVal(_, _)
InsertVal(sorted, x) ==
    IF sorted = <<>> THEN <<x>>
    ELSE IF Less(x, Head(sorted)) THEN <<x>> \o sorted
    ELSE <<Head(sorted)>> \o InsertVal(Tail(sorted), x)

RECURSIVE SortVals(_)
\* values by increasing size
SortVals(a) ==
    IF a = <<>> THEN <<>>
    ELSE InsertVal(SortVals(SubSeq(a, 1, Len(a) - 1)), a[Len(a)])

\* the median of a non-empty array without NaN
Median(a) ==
    LET b == SortVals(a)
        h == Len(b) \div 2
    IN  IF Len(b) % 2 = 1 THEN b[h + 1] ELSE DivInt(Add(b[h], b[h + 1]), 2)

\* the accepted aggregations: {"mean": "mean", "median": "median", "sum": "sum"}
Hows == {"mean", "median", "sum"}

\* the aggregation name is not looked at: always the mean (a bug)
AggregateMeanOnly(how, vals) == IF vals = <<>> THEN NaN ELSE Mean(vals)

\* one bucket's aggregate over its non-missing values: an empty bucket has
\* mean and median NaN and sum 0
Aggregate(how, vals) ==
    CASE how = "sum" -> SumSeq(vals)
      [] how = "mean" -> IF vals = <<>> THEN NaN ELSE Mean(vals)
      [] how = "median" -> IF vals = <<>> THEN NaN ELSE Median(vals)

\* the left edge of the bucket of width w that holds t
BucketOf(t, w) == (t \div w) * w

\* the non-missing values of the rows in the bucket [b, b + w)
BucketValues(s, b, w) ==
    Values(SelectSeq(s, LAMBDA r : b <= r.t /\ r.t < b + w /\ ~IsNaN(r.v)))

\* only the buckets that hold a row, as a groupby would give (a bug)
ResampleOccupied(s, w, how) ==
    IF s = <<>> THEN <<>>
    ELSE LET lo == BucketOf(s[1].t, w)
             hi == BucketOf(s[Len(s)].t, w)
             all == [j \in 1..((hi - lo) \div w + 1) |->
                       [t |-> lo + (j - 1) * w,
                        v |-> Aggregate(how, BucketValues(s, lo + (j - 1) * w, w))]]
         IN  SelectSeq(all, LAMBDA r : \E i \in 1..Len(s) : BucketOf(s[i].t, w) = r.t)

\* getattr(s.resample(w), how)() of a sorted series: one row per bucket from
\* the bucket of the first label to the bucket of the last one
Resample(s, w, how) ==
    IF s = <<>> THEN <<>>
    ELSE LET lo == BucketOf(s[1].t, w)
             hi == BucketOf(s[Len(s)].t, w)
         IN  [j \in 1..((hi - lo) \div w + 1) |->
                [t |-> lo + (j - 1) * w,
                 v |-> Aggregate(how, BucketValues(s, lo + (j - 1) * w, w))]]

\* what a call returned
Returned(rows) == [status |-> "ok", rows |-> rows]

\* what a call raised
Raised(error) == [status |-> "raised", error |-> error]

\* reindexing a Series whose index holds a label twice
DuplicateLabels == Raised("ValueError: cannot reindex on an axis with duplicate labels")

\* the rows paired by position, the labels ignored (a bug)
ConcatInnerByPosition(sm, so) ==
    IF HasDup(sm) \/ HasDup(so) THEN DuplicateLabels
    ELSE Returned([i \in 1..(IF Len(sm) < Len(so) THEN Len(sm) ELSE Len(so)) |->
             [t |-> sm[i].t, model |-> sm[i].v, obs |-> so[i].v]])

\* pd.concat([sm, so], axis=1, join="inner"): the labels of both indexes, each
\* once; a series whose index holds a label twice cannot be reindexed to them
ConcatInner(sm, so) ==
    IF HasDup(sm) \/ HasDup(so) THEN DuplicateLabels
    ELSE LET keep == SelectSeq(sm, LAMBDA r : HasTime(so, r.t))
         IN  Returned([i \in 1..Len(keep) |->
                 [t |-> keep[i].t, model |-> keep[i].v, obs |-> At(so, keep[i].t)]])

\* how often the label t occurs in the index
Count(s, t) == Cardinality({i \in 1..Len(s) : s[i].t = t})

RECURSIVE UnionFrom(_, _, _)
\* Index.union of two sorted indexes, from label t on: every label as often
\* as the index that holds it most often
UnionFrom(sm, so, t) ==
    IF \A i \in 1..Len(sm) : sm[i].t < t
       /\ \A j \in 1..Len(so) : so[j].t < t
    THEN <<>>
    ELSE LET c == IF Count(sm, t) > Count(so, t) THEN Count(sm, t) ELSE Count(so, t)
         IN  [i \in 1..c |-> t] \o UnionFrom(sm, so, t + 1)

\* the least label of two series that are not both empty
FirstTime(sm, so) ==
    CHOOSE t \in {sm[i].t : i \in 1..Len(sm)} \cup {so[j].t : j \in 1..Len(so)} :
        /\ \A i \in 1..Len(sm) : t <= sm[i].t
        /\ \A j \in 1..Len(so) : t <= so[j].t

UnionIndex(sm, so) ==
    IF sm = <<>> /\ so = <<>> THEN <<>> ELSE UnionFrom(sm, so, FirstTime(sm, so))

\* Series.reindex(labels) of a series with a unique index, or whose index is
\* labels itself: the value at each label, NaN where the series has none
ReindexExact(s, labels) ==
    IF Times(s) = labels THEN Values(s)
    ELSE [i \in 1..Len(labels) |->
            IF HasTime(s, labels[i]) THEN At(s, labels[i]) ELSE NaN]

\* pd.concat([sm, so], axis=1, join="outer"): both series reindexed to the
\* union of the indexes
ConcatOuter(sm, so) ==
    LET labels == UnionIndex(sm, so)
    IN  IF \/ HasDup(sm) /\ Times(sm) # labels
           \/ HasDup(so) /\ Times(so) # labels
        THEN DuplicateLabels
        ELSE Returned([i \in 1..Len(labels) |->
                 [t |-> labels[i],
                  model |-> ReindexExact(sm, labels)[i],
                  obs |-> ReindexExact(so, labels)[i]]])

\* the row of the sorted, unique, non-empty index so that get_indexer with
\* method="nearest" gives for the label m: the last row not after m ("pad") if
\* it is strictly nearer than the first row not before m ("backfill"), or if
\* there is none not before m
NearestRow(so, m) ==
    LET pad == {i \in 1..Len(so) : so[i].t <= m}
        backfill == {i \in 1..Len(so) : so[i].t >= m}
        left == CHOOSE i \in pad : \A j \in pad : j <= i
        right == CHOOSE i \in backfill : \A j \in backfill : i <= j
    IN  IF backfill = {} THEN left
        ELSE IF pad = {} THEN right
        ELSE IF m - so[left].t < so[right].t - m THEN left ELSE right

\* the tolerance is not applied (a bug)
NearestValueAnyDistance(so, m, tol) ==
    IF so = <<>> THEN NaN ELSE so[NearestRow(so, m)].v

\* one label of so.reindex(..., method="nearest", tolerance=tol): the value of
\* the nearest row if it is not farther than tol, else NaN
NearestValue(so, m, tol) ==
    IF so = <<>> THEN NaN
    ELSE LET i == NearestRow(so, m)
         IN  IF Abs(so[i].t - m) <= tol THEN so[i].v ELSE NaN

\* a model timestamp is paired with the nearest observed point that has a
\* value (a bug: the nearest label is taken whatever its value)
AsofJoinSkippingMissing(sm, so, tol) ==
    IF Times(so) # Times(sm) /\ HasDup(so) THEN DuplicateLabels
    ELSE Returned([i \in 1..Len(sm) |->
             [t |-> sm[i].t,
              model |-> sm[i].v,
              obs |-> NearestValue(SelectSeq(so, LAMBDA r : ~IsNaN(r.v)), sm[i].t, tol)]])

\* df = pd.DataFrame({"model": sm});
\* df["obs"] = so.reindex(sm.index, method="nearest", tolerance=...):
\* reindex returns a copy when the two indexes are identical, and cannot
\* reindex a series whose index holds a label twice
AsofJoin(sm, so, tol) ==
    IF Times(so) # Times(sm) /\ HasDup(so) THEN DuplicateLabels
    ELSE Returned([i \in 1..Len(sm) |->
             [t |-> sm[i].t,
              model |-> sm[i].v,
              obs |-> IF Times(so) = Times(sm) THEN so[i].v
                      ELSE NearestValue(so, sm[i].t, tol)]])

\* no row is dropped (a bug)
DropNaNothing(rows) == rows

\* rows with NaN on the model side only are dropped (a bug)
DropNaModelOnly(rows) == SelectSeq(rows, LAMBDA r : ~IsNaN(r.model))

\* df.dropna(): the rows without a missing value
DropNa(rows) == SelectSeq(rows, LAMBDA r : ~IsNaN(r.model) /\ ~IsNaN(r.obs))

\* a method name that is not known is taken as the default, "asof" (a bug)
align_seriesUnknownAsAsof(model0, obs0, meth, tol, rule, how) ==
    LET sm0 == sort_index(model0)
        so0 == sort_index(obs0)
        sm == IF rule # 0 THEN Resample(sm0, rule, how) ELSE sm0
        so == IF rule # 0 THEN Resample(so0, rule, how) ELSE so0
        df == CASE meth = "inner" -> ConcatInner(sm, so)
                [] meth = "outer" -> ConcatOuter(sm, so)
                [] OTHER -> AsofJoin(sm, so, tol)
    IN  IF rule # 0 /\ how \notin Hows THEN Raised("KeyError")
        ELSE IF df.status = "raised" THEN df
        ELSE Returned(DropNa(df.rows))

\* sort both, resample both if a rule is given (the aggregation is looked up
\* first: a name that is not a key raises KeyError), join by the method (a
\* name that is not known raises ValueError), drop the rows with a NaN
align_series(model0, obs0, meth, tol, rule, how) ==
    LET sm0 == sort_index(model0)
        so0 == sort_index(obs0)
        sm == IF rule # 0 THEN Resample(sm0, rule, how) ELSE sm0
        so == IF rule # 0 THEN Resample(so0, rule, how) ELSE so0
        df == CASE meth = "inner" -> ConcatInner(sm, so)
                [] meth = "outer" -> ConcatOuter(sm, so)
                [] meth = "asof" -> AsofJoin(sm, so, tol)
                [] OTHER -> Raised("ValueError: method must be one of: 'inner', 'asof', 'outer'")
    IN  IF rule # 0 /\ how \notin Hows THEN Raised("KeyError")
        ELSE IF df.status = "raised" THEN df
        ELSE Returned(DropNa(df.rows))

\* the column labels of the table of align_series, for input series named
\* nm.model and nm.obs (sort_index and resample keep the name): pd.concat
\* labels the columns by the names of the series, the asof branch builds
\* the column 'model' and adds the column 'obs'.  In a row of the table the
\* field model is the value of the first column and the field obs the value
\* of the second.
align_columns(meth, nm) ==
    IF meth \in {"inner", "outer"} THEN <<nm.model, nm.obs>> ELSE <<"model", "obs">>

\* df[label].values of a table whose two column labels differ: KeyError when
\* no column has the label
TableColumn(rows, cols, label) ==
    CASE cols[1] = label -> [status |-> "ok", values |-> [i \in 1..Len(rows) |-> rows[i].model]]
      [] cols[1] # label /\ cols[2] = label ->
            [status |-> "ok", values |-> [i \in 1..Len(rows) |-> rows[i].obs]]
      [] OTHER -> [status |-> "raised", error |-> [type |-> "KeyError", about |-> [key |-> label]]]

----------------------------------------------------------------------------
(* The extractors: get_dfs0_speed_series and get_hg_speed_series.            *)
(*                                                                          *)
(* A string that the code looks into (an item name, a query) is a sequence  *)
(* of characters; a key is an atom.  A dataset is a record [time, items,    *)
(* data]: ds.time, the names of ds.items and ds.to_numpy().  A 2-D array is *)
(* a record [ndim, shape, at] with at[<<r, c>>] the element of row r and    *)
(* column c (from 1); an array of another rank is [ndim, shape].            *)

\* the characters of a name: a lower-case letter, its upper-case form and a
\* letter without an upper-case form in the names
Alphabet == {"a", "A", "b"}

\* str.lower(), one character
LowerChar(c) == IF c = "A" THEN "a" ELSE c

\* str.lower()
Lower(str) == [k \in 1..Len(str) |-> LowerChar(str[k])]

\* q in str
Contains(q, str) ==
    \E k \in 0..(Len(str) - Len(q)) : SubSeq(str, k + 1, k + Len(q)) = q

\* the least member of a non-empty set of integers
Least(S) == CHOOSE x \in S : \A y \in S : x <= y

\* an exception with the parts of its message (a record)
Error(type, about) == [type |-> type, about |-> about]

\* the message of _ensure_time_items
UnexpectedShape == [message |-> "Unexpected data shape from mikeio dataset"]

\* arr.T of a 2-D array
Transpose(a) ==
    [ndim |-> 2,
     shape |-> <<a.shape[2], a.shape[1]>>,
     at |-> [p \in (1..a.shape[2]) \X (1..a.shape[1]) |-> a.at[<<p[2], p[1]>>]]]

\* _ensure_time_items(ds): (t, arr), arr transposed when its second axis and
\* not its first has len(t) entries
ensure_time_items(ds) ==
    IF ds.data.ndim # 2
    THEN Raised(Error("ValueError", UnexpectedShape))
    ELSE [status |-> "ok",
          t |-> ds.time,
          arr |-> IF ds.data.shape[1] # Len(ds.time) /\ ds.data.shape[2] = Len(ds.time)
                  THEN Transpose(ds.data) ELSE ds.data]

\* arr.reshape(-1, 1) of a 1-D array
AsColumn(a) ==
    [ndim |-> 2, shape |-> <<a.shape[1], 1>>,
     at |-> [p \in (1..a.shape[1]) \X {1} |-> a.at[p[1]]]]

\* pd.DataFrame(arr, index=t, columns=columns): ValueError unless arr is 2-D
\* with as many columns as names (its rows are len(t) by then)
DataFrame(arr, t, columns) ==
    IF arr.ndim # 2
    THEN Raised(Error("ValueError", [message |-> "Must pass 2-d input", shape |-> arr.shape]))
    ELSE IF arr.shape[2] # Len(columns) \/ arr.shape[1] # Len(t)
    THEN Raised(Error("ValueError",
             [passed |-> arr.shape, implied |-> <<Len(t), Len(columns)>>]))
    ELSE [status |-> "ok", index |-> t, columns |-> columns,
          shape |-> arr.shape, at |-> arr.at]

\* _dataset_to_dataframe(ds) (convert_dfs0_to_dataframe.py): a 1-D array is a
\* column; an array whose second axis and not its first has len(t) entries is
\* transposed (all axes reversed); ValueError unless the first axis then has
\* len(t) entries
dataset_to_dataframe(ds) ==
    LET t == ds.time
        a1 == IF ds.data.ndim = 1 THEN AsColumn(ds.data) ELSE ds.data
        a2 == IF a1.shape[1] # Len(t) /\ a1.shape[2] = Len(t)
              THEN (IF a1.ndim = 2 THEN Transpose(a1)
                    ELSE [ndim |-> a1.ndim,
                          shape |-> [k \in 1..Len(a1.shape) |->
                                        a1.shape[Len(a1.shape) + 1 - k]]])
              ELSE a1
    IN  IF a2.shape[1] # Len(t)
        THEN Raised(Error("ValueError", [shape |-> a2.shape, timestamps |-> Len(t)]))
        ELSE DataFrame(a2, t, ds.items)

\* _time_and_matrix(ds) (plot_dfs0_timeseries.py, plot_dfs0_stack.py):
\* ValueError unless the array is 2-D and, transposed if need be, has len(t)
\* rows; the values that are not finite become NaN
time_and_matrix(ds) ==
    LET t == ds.time
        a1 == ds.data
        a2 == IF a1.shape[1] # Len(t) /\ a1.shape[2] = Len(t) THEN Transpose(a1) ELSE a1
    IN  IF a1.ndim # 2
        THEN Raised(Error("ValueError", [shape |-> a1.shape]))
        ELSE IF a2.shape[1] # Len(t)
        THEN Raised(Error("ValueError", [time |-> Len(t), rows |-> a2.shape[1]]))
        ELSE [status |-> "ok", t |-> t,
              arr |-> [a2 EXCEPT !.at = [p \in DOMAIN a2.at |->
                          IF IsFinite(a2.at[p]) THEN a2.at[p] ELSE NaN]]]

\* when nothing matches, the first item is taken (a bug)
find_item_indexDefaultFirst(ds, query) ==
    LET q == Lower(query)
        names == ds.items
        exact == {k \in 1..Len(names) : Lower(names[k]) = q}
        partial == {k \in 1..Len(names) : Contains(q, Lower(names[k]))}
    IN  IF exact # {} THEN [status |-> "ok", i |-> Least(exact) - 1]
        ELSE IF partial # {} THEN [status |-> "ok", i |-> Least(partial) - 1]
        ELSE IF names # <<>> THEN [status |-> "ok", i |-> 0]
        ELSE Raised(Error("ValueError", [item |-> query, available |-> names]))

\* one loop, the first item that equals or contains the query (a bug)
find_item_indexSingleLoop(ds, query) ==
    LET q == Lower(query)
        names == ds.items
        hit == {k \in 1..Len(names) : Lower(names[k]) = q \/ Contains(q, Lower(names[k]))}
    IN  IF hit # {} THEN [status |-> "ok", i |-> Least(hit) - 1]
        ELSE Raised(Error("ValueError", [item |-> query, available |-> names]))

\* _find_item_index(ds, item_query): the position (from 0) of the first item
\* whose lower-cased name is the lower-cased query, else of the first one
\* whose lower-cased name contains it, else ValueError
find_item_index(ds, query) ==
    LET q == Lower(query)
        names == ds.items
        exact == {k \in 1..Len(names) : Lower(names[k]) = q}
        partial == {k \in 1..Len(names) : Contains(q, Lower(names[k]))}
    IN  IF exact # {} THEN [status |-> "ok", i |-> Least(exact) - 1]
        ELSE IF partial # {} THEN [status |-> "ok", i |-> Least(partial) - 1]
        ELSE Raised(Error("ValueError", [item |-> query, available |-> names]))

\* the rows are put in index order (a bug: pd.Series keeps the given order)
SeriesSorted(y, t, name) ==
    IF Len(y) # Len(t)
    THEN Raised(Error("ValueError", [values |-> Len(y), index |-> Len(t)]))
    ELSE [status |-> "ok", name |-> name,
          rows |-> sort_index([k \in 1..Len(t) |-> [t |-> t[k], v |-> y[k]]])]

\* pd.Series(y, index=t, name=name): ValueError when the lengths differ
Series(y, t, name) ==
    IF Len(y) # Len(t)
    THEN Raised(Error("ValueError", [values |-> Len(y), index |-> Len(t)]))
    ELSE [status |-> "ok", name |-> name,
          rows |-> [k \in 1..Len(t) |-> [t |-> t[k], v |-> y[k]]]]

\* arr[:, i] of a 2-D array, i from 0: IndexError when there is no column i
Column(arr, i) ==
    IF i >= arr.shape[2]
    THEN Raised(Error("IndexError", [index |-> i, size |-> arr.shape[2]]))
    ELSE [status |-> "ok", y |-> [r \in 1..arr.shape[1] |-> arr.at[<<r, i + 1>>]]]

\* ps.Bins[bin_index]: Python indexing of a sequence of n entries, -n..n-1
BinAt(bins, index) ==
    IF index >= 0 /\ index < Len(bins) THEN [status |-> "ok", b |-> bins[index + 1]]
    ELSE IF index < 0 /\ -index <= Len(bins)
         THEN [status |-> "ok", b |-> bins[Len(bins) + index + 1]]
    ELSE Raised(Error("IndexError", [bin |-> index, available |-> Len(bins)]))

----------------------------------------------------------------------------
(* The bulk loaders: load_dfs0s, load_dfs0s_to_dataframe, load_mat_files,    *)
(* and the converter dfs0_to_dataframes.                                    *)
(*                                                                          *)
(* A path is a record [dir, name]; disk[p] is what is at p: nothing, a file *)
(* that cannot be read, or a file with its content.  A dict is a function   *)
(* from its keys.  An object with attributes set at run time (a Dfs0Bundle) *)
(* is the function from its attribute names that its __dict__ is.           *)

\* Path(f).name -> Path(f).stem.lower(), for the file names of the model
StemLower ==
    [n \in {"a.dfs0", "A.dfs0", "add.dfs0", "_files.dfs0"} |->
        CASE n = "a.dfs0" -> "a"
          [] n = "A.dfs0" -> "a"
          [] n = "add.dfs0" -> "add"
          [] n = "_files.dfs0" -> "_files"]

\* what is at a path
Missing == [state |-> "missing"]

Unreadable == [state |-> "unreadable"]

File(content) == [state |-> "file", content |-> content]

\* one printed line
Line(kind, about) == [kind |-> kind, about |-> about]

\* the first value stored under a key stays (a bug)
DictSetKeepFirst(d, key, value) == d @@ (key :> value)

\* d[key] = value
DictSet(d, key, value) == (key :> value) @@ d

\* self._files = {}
NewBundle == ("_files" :> [kind |-> "dict", map |-> <<>>])

\* Dfs0File(name, df): the wrapper of one file's table
Dfs0File(name, df) == [kind |-> "Dfs0File", _name |-> name, _df |-> df]

\* Dfs0Bundle.add(name, df) on the bundle with the attributes b:
\*   dfs0file = Dfs0File(name, df); setattr(self, name, dfs0file);
\*   self._files[name] = dfs0file
\* An attribute "add" set by an earlier call hides the method (TypeError: not
\* callable); the name "_files" replaces the dict before the item is stored
\* (TypeError: no item assignment).
BundleAdd(b, name, df) ==
    IF "add" \in DOMAIN b
    THEN [status |-> "raised", error |-> Error("TypeError", [message |-> "not callable"]),
          bundle |-> b]
    ELSE LET b1 == DictSet(b, name, Dfs0File(name, df))
         IN  IF b1["_files"].kind # "dict"
             THEN [status |-> "raised",
                   error |-> Error("TypeError", [message |-> "no item assignment"]),
                   bundle |-> b1]
             ELSE [status |-> "ok",
                   bundle |-> DictSet(b1, "_files",
                       [kind |-> "dict",
                        map |-> DictSet(b1["_files"].map, name, Dfs0File(name, df))])]

\* ds.to_dataframe(): the table of a dataset read from a file
to_dataframe(ds) == DataFrame(ds.data, ds.time, ds.items)

\* the order in which a dict of datasets built by load_dfs0s is iterated
KeyOrder == <<"a.dfs0", "b.dfs0">>

RECURSIVE ConvertAll(_, _, _, _)
\* the loop of dfs0_to_dataframes over the keys ks: a dataset whose conversion
\* raises is printed and left out
ConvertAll(dsets, ks, out, printed) ==
    IF ks = <<>> THEN [frames |-> out, console |-> printed]
    ELSE LET name == Head(ks)
             df == dataset_to_dataframe(dsets[name])
         IN  IF name \notin DOMAIN dsets THEN ConvertAll(dsets, Tail(ks), out, printed)
             ELSE IF df.status = "raised"
             THEN ConvertAll(dsets, Tail(ks), out,
                             Append(printed, Line("error converting", name)))
             ELSE ConvertAll(dsets, Tail(ks), DictSet(out, name, df), printed)

\* the first failing conversion is raised to the caller (no try/except)
dfs0_to_dataframesRaising(dsets) ==
    LET bad == {k \in 1..Len(KeyOrder) :
                   KeyOrder[k] \in DOMAIN dsets
                   /\ dataset_to_dataframe(dsets[KeyOrder[k]]).status = "raised"}
    IN  IF bad # {}
        THEN [frames |-> dataset_to_dataframe(dsets[KeyOrder[Least(bad)]]), console |-> <<>>]
        ELSE [frames |-> [status |-> "ok",
                          value |-> ConvertAll(dsets, KeyOrder, <<>>, <<>>).frames],
              console |-> <<>>]

\* dfs0_to_dataframes(datasets): {name: DataFrame} and the lines printed
dfs0_to_dataframes(dsets) ==
    LET r == ConvertAll(dsets, KeyOrder, <<>>, <<>>)
    IN  [frames |-> [status |-> "ok", value |-> r.frames], console |-> r.console]

\* the offset of MATLAB's date numbers against Python's ordinals, in days
DatenumOffset == 366

\* a value loaded from a .mat file: a float, a 1-D array of floats, a struct
\* (mat_struct, its fields in __dict__), an array or list of objects
Scalar(x) == [kind |-> "float", val |-> x]

Floats(vals) == [kind |-> "array", of |-> "float", items |-> vals]

Objects(vals) == [kind |-> "array", of |-> "object", items |-> vals]

Struct(fields) == [kind |-> "struct", fields |-> fields]

\* a list of datetimes; a datetime is its ordinal with the fraction of the
\* day, in days
Datetimes(vals) == [kind |-> "list", of |-> "datetime", items |-> vals]

\* str.lower() and str.startswith("__"), for the field and variable names of
\* the model
NameLower ==
    [n \in {"Time", "time", "Times", "Speed", "Bins", "profileStruct", "bins"} |->
        CASE n \in {"Time", "time"} -> "time"
          [] n = "Times" -> "times"
          [] n = "Speed" -> "speed"
          [] n \in {"Bins", "bins"} -> "bins"
          [] n = "profileStruct" -> "profilestruct"]

StartsWithDunder(k) == k \in {"__header__", "__version__", "__globals__"}

\* np.floor(x).astype(int) of a finite float
Floor(x) == x.n \div x.d

\* one date number to a datetime:
\*   datetime.fromordinal(int(d)) + timedelta(days=float(f)) - timedelta(days=366)
\* fromordinal needs d >= 1 and the result must not lie before day 1; a NaN or
\* an infinity has no day
DatenumOk(x) == x.k = "fin" /\ Floor(x) >= 1 /\ Floor(x) - DatenumOffset >= 1

DatenumToDatetime(x) ==
    LET day == Floor(x)
        frac == Sub(x, Num(day))
    IN  Add(Num(day - DatenumOffset), frac)

\* matlab_datenum_to_datetime(md): the list of datetimes of a 1-D array of
\* date numbers; a scalar (a 0-d array cannot be iterated), a struct and an
\* array of objects raise TypeError, a date number without a datetime raises
\* ValueError or OverflowError
matlab_datenum_to_datetime(md) ==
    IF md.kind = "array" /\ md.of = "float"
    THEN IF \A k \in 1..Len(md.items) : DatenumOk(md.items[k])
         THEN [status |-> "ok",
               value |-> Datetimes([k \in 1..Len(md.items) |->
                                       DatenumToDatetime(md.items[k])])]
         ELSE Raised(Error("ValueError", [message |-> "ordinal out of range"]))
    ELSE IF md.kind = "array" /\ md.items = <<>>
    THEN [status |-> "ok", value |-> Datetimes(<<>>)]
    ELSE Raised(Error("TypeError", [message |-> "not an array of numbers"]))

RECURSIVE convert_time_fieldsExactName(_)
\* only a field named exactly "Time" is converted (a bug: the code lower-cases)
convert_time_fieldsExactName(obj) ==
    IF obj.kind = "struct"
    THEN Struct([f \in DOMAIN obj.fields |->
            IF f = "Time"
            THEN (IF matlab_datenum_to_datetime(obj.fields[f]).status = "ok"
                  THEN matlab_datenum_to_datetime(obj.fields[f]).value
                  ELSE obj.fields[f])
            ELSE convert_time_fieldsExactName(obj.fields[f])])
    ELSE IF obj.kind = "array" /\ obj.of = "object"
    THEN Objects([k \in 1..Len(obj.items) |-> convert_time_fieldsExactName(obj.items[k])])
    ELSE obj

RECURSIVE convert_time_fields(_)
\* convert_time_fields(obj): obj after the call.  In a struct, a field whose
\* lower-cased name is "time" is replaced by its conversion, or left as it is
\* when the conversion raises (except Exception: pass), and every other field
\* is searched; the entries of a list, tuple or array are searched; anything
\* else is left alone
convert_time_fields(obj) ==
    IF obj.kind = "struct"
    THEN Struct([f \in DOMAIN obj.fields |->
            IF NameLower[f] = "time"
            THEN (IF matlab_datenum_to_datetime(obj.fields[f]).status = "ok"
                  THEN matlab_datenum_to_datetime(obj.fields[f]).value
                  ELSE obj.fields[f])
            ELSE convert_time_fields(obj.fields[f])])
    ELSE IF obj.kind = "array" /\ obj.of = "object"
    THEN Objects([k \in 1..Len(obj.items) |-> convert_time_fields(obj.items[k])])
    ELSE obj

\* mat = {k: v for k, v in mat.items() if not k.startswith("__")};
\* for v in mat.values(): convert_time_fields(v)
LoadedMat(mat) ==
    [k \in {v \in DOMAIN mat : ~StartsWithDunder(v)} |-> convert_time_fields(mat[k])]

----------------------------------------------------------------------------
(* The callers. *)

\* nothing returned yet
NoResult == [status |-> "none"]

\* the names the two extractors give their series
ExtractorNames == [model |-> "model", obs |-> "obs"]

Methods == {"inner", "outer", "asof"}

\* the finite and non-finite values an input series of align_series holds
AlignVals == {NaN, PInf} \cup {Num(i) : i \in 1..MaxVal}

Rows == [t : 0..MaxTime, v : AlignVals]

SeriesSet == UNION {[1..n -> Rows] : n \in 0..MaxLen}

\* the series of the worked example: model [(t0,1.0),(t1,2.0),(t2,3.0)],
\* observed [(t0,1.1),(t2,2.9)]
ExampleModel ==
    <<[t |-> 0, v |-> Num(1)], [t |-> 1, v |-> Num(2)], [t |-> 2, v |-> Num(3)]>>

ExampleObs == <<[t |-> 0, v |-> Fin(11, 10)], [t |-> 2, v |-> Fin(29, 10)]>>

\* no extractor is running and none has run
NoExtraction ==
    /\ datasets = <<>>
    /\ dfs0_key = ""
    /\ item_query = <<>>
    /\ mat_data = <<>>
    /\ mat_key = ""
    /\ bin_index = 0
    /\ frame = <<>>
    /\ series = NoResult
    /\ series_base = ""
    /\ caller = ""

\* plot_dfs0_items_stacked is not running and has not run
NoPlotting ==
    /\ plot_args = <<>>
    /\ plot_result = NoResult

\* no loader is running and none has run
NoLoading ==
    /\ file_list = <<>>
    /\ disk = <<>>
    /\ next_file = 1
    /\ results = <<>>
    /\ frames = NoResult
    /\ console = <<>>
    /\ dfs0file = NoResult

\* a call of compare_speed_stats after the two extractions, with the two
\* series and the alignment arguments it passes on
InitAlign ==
    /\ \/ /\ s_model \in SeriesSet
          /\ s_obs \in SeriesSet
          /\ method \in Methods
          /\ tolerance \in (IF method = "asof" THEN 0..MaxTol ELSE {0})
          /\ resample \in {0} \cup 2..MaxRule
          /\ how_resample \in (IF resample = 0 THEN {"mean"} ELSE Hows)
       \/ /\ s_model = ExampleModel
          /\ s_obs = ExampleObs
          /\ method = "inner"
          /\ tolerance = 0
          /\ resample = 0
          /\ how_resample = "mean"
    /\ aligned = NoResult
    /\ series_names = ExtractorNames
    /\ aligned_columns = <<>>
    /\ obs = <<>>
    /\ mod = <<>>
    /\ stats = NoResult
    /\ NoExtraction
    /\ NoLoading
    /\ NoPlotting
    /\ pc = "align"

\* the two series sorted in place (a bug: sort_index returns a new series)
AlignSeriesInPlace ==
    /\ pc = "align"
    /\ aligned' = align_series(s_model, s_obs, method, tolerance, resample, how_resample)
    /\ aligned_columns' =
          IF aligned'.status = "ok" THEN align_columns(method, series_names) ELSE aligned_columns
    /\ pc' = IF aligned'.status = "ok" THEN "stats" ELSE "raised"
    /\ s_model' = sort_index(s_model)
    /\ s_obs' = sort_index(s_obs)
    /\ UNCHANGED <<method, tolerance, resample, how_resample, series_names, obs, mod, stats>>
    /\ UNCHANGED <<extractVars, loadVars, plotVars>>

\* aligned = align_series(s_model, s_obs, method=align_method, ...)
AlignSeries ==
    /\ pc = "align"
    /\ aligned' = align_series(s_model, s_obs, method, tolerance, resample, how_resample)
    /\ aligned_columns' =
          IF aligned'.status = "ok" THEN align_columns(method, series_names) ELSE aligned_columns
    /\ pc' = IF aligned'.status = "ok" THEN "stats" ELSE "raised"
    /\ UNCHANGED <<s_model, s_obs, method, tolerance, resample, how_resample,
                   series_names, obs, mod, stats>>
    /\ UNCHANGED <<extractVars, loadVars, plotVars>>

\* the two columns passed the other way round (a bug)
CompareStatsSwapped ==
    /\ pc = "stats"
    /\ LET o == TableColumn(aligned.rows, aligned_columns, "model")
           m == TableColumn(aligned.rows, aligned_columns, "obs")
       IN  IF o.status = "raised" \/ m.status = "raised"
           THEN /\ stats' = (IF o.status = "raised" THEN o ELSE m)
                /\ pc' = "raised"
                /\ UNCHANGED <<obs, mod>>
           ELSE /\ obs' = o.values
                /\ mod' = m.values
                /\ stats' = [status |-> "ok", value |-> calc_stats(obs', mod')]
                /\ pc' = "done"
    /\ UNCHANGED <<s_model, s_obs, method, tolerance, resample, how_resample, aligned,
                   series_names, aligned_columns>>
    /\ UNCHANGED <<extractVars, loadVars, plotVars>>

\* stats = calc_stats(aligned["obs"].values, aligned["model"].values)
CompareStats ==
    /\ pc = "stats"
    /\ LET o == TableColumn(aligned.rows, aligned_columns, "obs")
           m == TableColumn(aligned.rows, aligned_columns, "model")
       IN  IF o.status = "raised" \/ m.status = "raised"
           THEN /\ stats' = (IF o.status = "raised" THEN o ELSE m)
                /\ pc' = "raised"
                /\ UNCHANGED <<obs, mod>>
           ELSE /\ obs' = o.values
                /\ mod' = m.values
                /\ stats' = [status |-> "ok", value |-> calc_stats(obs', mod')]
                /\ pc' = "done"
    /\ UNCHANGED <<s_model, s_obs, method, tolerance, resample, how_resample, aligned,
                   series_names, aligned_columns>>
    /\ UNCHANGED <<extractVars, loadVars, plotVars>>

NextAlign == AlignSeries \/ CompareStats

SpecAlign == InitAlign /\ [][NextAlign]_vars

\* the method and how_resample arguments a caller can pass: the accepted ones
\* and one that is not
AnyMethods == Methods \cup {"nearest"}

AnyHows == Hows \cup {"max"}

\* the values of the series of such a call
ArgVals == {NaN} \cup {Num(i) : i \in 1..MaxVal}

ArgObsVals == {NaN, Num(1)}

ArgModelSeries == UNION {[1..n -> [t : 0..MaxTime, v : ArgVals]] : n \in 0..MaxArgLen}

ArgObsSeries == UNION {[1..n -> [t : 0..MaxTime, v : ArgObsVals]] : n \in 0..MaxLen}

\* a call align_series(s_model, s_obs, method=..., resample=..., how_resample=...)
\* with any method name, any rule (width 1 included) and any aggregation name
InitArgs ==
    /\ s_model \in ArgModelSeries
    /\ s_obs \in ArgObsSeries
    /\ method \in AnyMethods
    /\ tolerance = 0
    /\ resample \in 0..MaxRule
    /\ how_resample \in (IF resample = 0 THEN {"mean", "max"} ELSE AnyHows)
    /\ aligned = NoResult
    /\ series_names = ExtractorNames
    /\ aligned_columns = <<>>
    /\ obs = <<>>
    /\ mod = <<>>
    /\ stats = NoResult
    /\ NoExtraction
    /\ NoLoading
    /\ NoPlotting
    /\ pc = "align"

SpecArgs == InitArgs /\ [][NextAlign]_vars

\* the dataset keys and the file keys of the calls, and one that is no key
Dfs0Keys == {"a.dfs0", "b.dfs0"}

MatKeys == {"m.mat", "n.mat"}

\* the strings of at most MaxName characters
Strings == UNION {[1..n -> Alphabet] : n \in 0..MaxName}

\* the item names of a dataset, in order
NameLists == UNION {[1..n -> Strings] : n \in 0..MaxItems}

\* ds.to_numpy() of shape (r, c): the element of row r and column c is
\* 10 * r + c, so that it tells where it came from
ArrayOf(r, c) ==
    [ndim |-> 2, shape |-> <<r, c>>,
     at |-> [p \in (1..r) \X (1..c) |-> Num(10 * p[1] + p[2])]]

\* the arrays a dataset can give: every 2-D shape, a 1-D and a 3-D array
Arrays ==
    {ArrayOf(r, c) : r \in 0..MaxDim, c \in 0..MaxDim}
        \cup {[ndim |-> 1, shape |-> <<n>>, at |-> [r \in 1..n |-> Num(10 * r)]] :
                  n \in 1..MaxDim}
        \cup {[ndim |-> 3, shape |-> <<n, n, n>>] : n \in 1..MaxDim}

\* ds.time: timestamps in file order
DsTimes == UNION {[1..n -> 0..1] : n \in 0..MaxLen}

Dataset(time, items, data) == [time |-> time, items |-> items, data |-> data]

\* a dataset of two time steps and one item named after its key
DatasetAt(key) ==
    Dataset(<<0, 1>>, <<IF key = "a.dfs0" THEN <<"a">> ELSE <<"b">>>>, ArrayOf(2, 1))

\* the bins of a profileStruct: one with two samples, one with two samples
\* in decreasing time, one whose Speed is shorter than its Time
BinSet ==
    {[Time |-> <<0, 1>>, Speed |-> <<Num(1), Num(2)>>],
     [Time |-> <<1, 0>>, Speed |-> <<Num(1), Num(2)>>],
     [Time |-> <<1, 0>>, Speed |-> <<NaN>>]}

\* the variables of a loaded .mat file: a profileStruct, or none
MatContents ==
    {[profileStruct |-> [Bins |-> bins]] :
        bins \in UNION {[1..n -> BinSet] : n \in 0..MaxLen}}
        \cup {[other |-> 0]}

\* a call get_dfs0_speed_series(datasets, dfs0_key, item_query): any item
\* names and query on a dataset of two time steps, in either layout; any
\* array and any time axis; any set of keys
InitDfs0 ==
    /\ \/ \E items \in NameLists, q \in Strings, byTime \in BOOLEAN :
             /\ datasets = [k \in {"a.dfs0"} |->
                   Dataset(<<0, 1>>, items,
                           IF byTime THEN ArrayOf(2, Len(items)) ELSE ArrayOf(Len(items), 2))]
             /\ dfs0_key = "a.dfs0"
             /\ item_query = q
       \/ \E time \in DsTimes, data \in Arrays, n \in 1..MaxItems :
          \E items \in [1..n -> {<<"a">>, <<"b">>}], q \in {<<"a">>, <<"b">>} :
             /\ datasets = [k \in {"a.dfs0"} |-> Dataset(time, items, data)]
             /\ dfs0_key = "a.dfs0"
             /\ item_query = q
       \/ \E keys \in SUBSET Dfs0Keys :
             /\ datasets = [k \in keys |-> DatasetAt(k)]
             /\ dfs0_key \in Dfs0Keys \cup {"c.dfs0"}
             /\ item_query \in Strings
    /\ mat_data = <<>>
    /\ mat_key = ""
    /\ bin_index = 0
    /\ pc = "dfs0_key"

\* a call get_hg_speed_series(mat_data, mat_key, bin_index)
InitHg ==
    /\ \E keys \in SUBSET MatKeys : mat_data \in [keys -> MatContents]
    /\ mat_key \in MatKeys \cup {"x.mat"}
    /\ bin_index \in (-(MaxLen + 1))..MaxLen
    /\ datasets = <<>>
    /\ dfs0_key = ""
    /\ item_query = <<>>
    /\ pc = "mat_key"

InitExtract ==
    /\ InitDfs0 \/ InitHg
    /\ frame = <<>>
    /\ series = NoResult
    /\ series_base = ""
    /\ caller = ""
    /\ s_model = <<>>
    /\ s_obs = <<>>
    /\ method = "asof"
    /\ tolerance = 0
    /\ resample = 0
    /\ how_resample = "mean"
    /\ aligned = NoResult
    /\ series_names = ExtractorNames
    /\ aligned_columns = <<>>
    /\ obs = <<>>
    /\ mod = <<>>
    /\ stats = NoResult
    /\ NoLoading
    /\ NoPlotting

\* the extractor raises e
Raise(e) ==
    /\ series' = e
    /\ pc' = "raised"
    /\ UNCHANGED frame

\* no membership test: the dict lookup raises a KeyError that names the key
\* alone (a bug)
GetDfs0KeyByLookup ==
    /\ pc = "dfs0_key"
    /\ IF dfs0_key \notin DOMAIN datasets
       THEN Raise(Raised(Error("KeyError", [key |-> dfs0_key])))
       ELSE /\ frame' = [ds |-> datasets[dfs0_key]]
            /\ pc' = "ensure"
            /\ UNCHANGED series
    /\ UNCHANGED <<datasets, dfs0_key, item_query, mat_data, mat_key, bin_index, series_base, caller>>
    /\ UNCHANGED <<alignVars, loadVars, plotVars>>

\* if dfs0_key not in datasets: raise KeyError(...); ds = datasets[dfs0_key]
GetDfs0Key ==
    /\ pc = "dfs0_key"
    /\ IF dfs0_key \notin DOMAIN datasets
       THEN Raise(Raised(Error("KeyError",
                [key |-> dfs0_key, available |-> DOMAIN datasets])))
       ELSE /\ frame' = [ds |-> datasets[dfs0_key]]
            /\ pc' = "ensure"
            /\ UNCHANGED series
    /\ UNCHANGED <<datasets, dfs0_key, item_query, mat_data, mat_key, bin_index, series_base, caller>>
    /\ UNCHANGED <<alignVars, loadVars, plotVars>>

\* t, arr = _ensure_time_items(ds)
EnsureTimeItems ==
    /\ pc = "ensure"
    /\ LET e == ensure_time_items(frame.ds)
       IN  IF e.status = "raised" THEN Raise(e)
           ELSE /\ frame' = [ds |-> frame.ds, t |-> e.t, arr |-> e.arr]
                /\ pc' = "find"
                /\ UNCHANGED series
    /\ UNCHANGED <<datasets, dfs0_key, item_query, mat_data, mat_key, bin_index, series_base, caller>>
    /\ UNCHANGED <<alignVars, loadVars, plotVars>>

\* i = _find_item_index(ds, item_query)
FindItemIndex ==
    /\ pc = "find"
    /\ LET f == find_item_index(frame.ds, item_query)
       IN  IF f.status = "raised" THEN Raise(f)
           ELSE /\ frame' = [ds |-> frame.ds, t |-> frame.t, arr |-> frame.arr, i |-> f.i]
                /\ pc' = "series"
                /\ UNCHANGED series
    /\ UNCHANGED <<datasets, dfs0_key, item_query, mat_data, mat_key, bin_index, series_base, caller>>
    /\ UNCHANGED <<alignVars, loadVars, plotVars>>

\* y = arr[:, i].astype(float); return pd.Series(y, index=t, name="model")
ModelSeries ==
    /\ pc = "series"
    /\ LET col == Column(frame.arr, frame.i)
       IN  series' = IF col.status = "raised" THEN col ELSE Series(col.y, frame.t, "model")
    /\ series_base' = IF series'.status = "ok" THEN "fresh" ELSE series_base
    /\ pc' = IF series'.status = "ok" THEN "extracted" ELSE "raised"
    /\ UNCHANGED <<datasets, dfs0_key, item_query, mat_data, mat_key, bin_index, frame, caller>>
    /\ UNCHANGED <<alignVars, loadVars, plotVars>>

\* if mat_key not in mat_data: raise KeyError(...); md = mat_data[mat_key]
GetMatKey ==
    /\ pc = "mat_key"
    /\ IF mat_key \notin DOMAIN mat_data
       THEN Raise(Raised(Error("KeyError",
                [key |-> mat_key, available |-> DOMAIN mat_data])))
       ELSE /\ frame' = [md |-> mat_data[mat_key]]
            /\ pc' = "profileStruct"
            /\ UNCHANGED series
    /\ UNCHANGED <<datasets, dfs0_key, item_query, mat_data, mat_key, bin_index, series_base, caller>>
    /\ UNCHANGED <<alignVars, loadVars, plotVars>>

\* if "profileStruct" not in md: raise KeyError(...); ps = md["profileStruct"]
GetProfileStruct ==
    /\ pc = "profileStruct"
    /\ IF "profileStruct" \notin DOMAIN frame.md
       THEN Raise(Raised(Error("KeyError",
                [key |-> "profileStruct", file |-> mat_key, available |-> DOMAIN frame.md])))
       ELSE /\ frame' = [md |-> frame.md, ps |-> frame.md.profileStruct]
            /\ pc' = "bin"
            /\ UNCHANGED series
    /\ UNCHANGED <<datasets, dfs0_key, item_query, mat_data, mat_key, bin_index, series_base, caller>>
    /\ UNCHANGED <<alignVars, loadVars, plotVars>>

\* try: b = ps.Bins[bin_index]; except Exception as e: raise IndexError(...)
GetBin ==
    /\ pc = "bin"
    /\ LET g == BinAt(frame.ps.Bins, bin_index)
       IN  IF g.status = "raised" THEN Raise(g)
           ELSE /\ frame' = [md |-> frame.md, ps |-> frame.ps, b |-> g.b]
                /\ pc' = "obs_series"
                /\ UNCHANGED series
    /\ UNCHANGED <<datasets, dfs0_key, item_query, mat_data, mat_key, bin_index, series_base, caller>>
    /\ UNCHANGED <<alignVars, loadVars, plotVars>>

\* t = pd.DatetimeIndex(pd.to_datetime(b.Time));
\* y = np.asarray(b.Speed, dtype=float); return pd.Series(y, index=t, name="obs")
\* np.asarray returns an array of floats as it is, without a copy, and
\* pd.Series copies an array or not as the installed pandas does by default
\* (pandas 3 copies, earlier versions share the memory)
ObsSeries ==
    /\ pc = "obs_series"
    /\ series' = Series(frame.b.Speed, frame.b.Time, "obs")
    /\ series_base' \in (IF series'.status = "ok" THEN {"fresh", "mat_data"} ELSE {series_base})
    /\ pc' = IF series'.status = "ok" THEN "extracted" ELSE "raised"
    /\ UNCHANGED <<datasets, dfs0_key, item_query, mat_data, mat_key, bin_index, frame, caller>>
    /\ UNCHANGED <<alignVars, loadVars, plotVars>>

NextExtract ==
    \/ GetDfs0Key \/ EnsureTimeItems \/ FindItemIndex \/ ModelSeries
    \/ GetMatKey \/ GetProfileStruct \/ GetBin \/ ObsSeries

SpecExtract == InitExtract /\ [][NextExtract]_vars

\* the datasets of a call of compare_speed_stats: two time steps of one item
\* named after the key, in increasing or in decreasing time, or an array
\* that is not 2-D
CompareDatasets(key) ==
    {DatasetAt(key),
     Dataset(<<1, 0>>, DatasetAt(key).items, ArrayOf(2, 1)),
     Dataset(<<0, 1>>, DatasetAt(key).items, [ndim |-> 3, shape |-> <<2, 1, 1>>])}

\* the .mat contents of such a call: no profileStruct, one bin, two bins
CompareMats ==
    {[other |-> 0],
     [profileStruct |-> [Bins |-> <<[Time |-> <<0, 1>>, Speed |-> <<Num(1), Num(2)>>]>>]],
     [profileStruct |->
         [Bins |-> <<[Time |-> <<0, 1>>, Speed |-> <<Num(1), Num(2)>>],
                     [Time |-> <<1, 0>>, Speed |-> <<Num(1), NaN>>]>>]]}

\* a call compare_speed_stats(datasets, mat_data, dfs0_key, dfs0_item, mat_key,
\* bin_index, align_method=..., resample=..., how_resample=...)
InitCompare ==
    /\ \E keys \in SUBSET Dfs0Keys :
          datasets \in {d \in [keys -> UNION {CompareDatasets(k) : k \in keys}] :
                            \A k \in keys : d[k] \in CompareDatasets(k)}
    /\ dfs0_key \in Dfs0Keys \cup {"c.dfs0"}
    /\ item_query \in {<<"a">>, <<"b">>}
    /\ \E keys \in SUBSET MatKeys : mat_data \in [keys -> CompareMats]
    /\ mat_key \in MatKeys \cup {"x.mat"}
    /\ bin_index \in -1..2
    /\ method \in AnyMethods
    /\ tolerance = 0
    /\ resample \in {0, 1}
    /\ how_resample \in (IF resample = 0 THEN {"mean"} ELSE {"mean", "max"})
    /\ caller = "compare_speed_stats"
    /\ frame = <<>>
    /\ series = NoResult
    /\ series_base = ""
    /\ s_model = <<>>
    /\ s_obs = <<>>
    /\ series_names = [model |-> "", obs |-> ""]
    /\ aligned = NoResult
    /\ aligned_columns = <<>>
    /\ obs = <<>>
    /\ mod = <<>>
    /\ stats = NoResult
    /\ NoLoading
    /\ NoPlotting
    /\ pc = "dfs0_key"

\* s_model = get_dfs0_speed_series(datasets, dfs0_key, dfs0_item): the
\* extractor has returned to compare_speed_stats, which goes on to the
\* observed series
AssignModel ==
    /\ caller = "compare_speed_stats"
    /\ pc = "extracted"
    /\ series.name = "model"
    /\ s_model' = series.rows
    /\ series_names' = [series_names EXCEPT !.model = series.name]
    /\ pc' = "mat_key"
    /\ UNCHANGED <<s_obs, method, tolerance, resample, how_resample, aligned,
                   aligned_columns, obs, mod, stats>>
    /\ UNCHANGED <<extractVars, loadVars, plotVars>>

\* s_obs = get_hg_speed_series(mat_data, mat_key, bin_index): the extractor
\* has returned to compare_speed_stats, which goes on to the alignment
AssignObs ==
    /\ caller = "compare_speed_stats"
    /\ pc = "extracted"
    /\ series.name = "obs"
    /\ s_obs' = series.rows
    /\ series_names' = [series_names EXCEPT !.obs = series.name]
    /\ pc' = "align"
    /\ UNCHANGED <<s_model, method, tolerance, resample, how_resample, aligned,
                   aligned_columns, obs, mod, stats>>
    /\ UNCHANGED <<extractVars, loadVars, plotVars>>

NextCompare ==
    \/ GetDfs0Key \/ EnsureTimeItems \/ FindItemIndex \/ ModelSeries \/ AssignModel
    \/ GetMatKey \/ GetProfileStruct \/ GetBin \/ ObsSeries \/ AssignObs
    \/ AlignSeries \/ CompareStats

SpecCompare == InitCompare /\ [][NextCompare]_vars

\* the names a caller of align_series can have given its series (a series
\* without a name is left out)
NameSet == {"model", "obs", "speed"}

\* a direct call align_series(s_model, s_obs, method=...) on two series with
\* any names
InitNames ==
    /\ s_model \in ArgObsSeries
    /\ s_obs \in ArgObsSeries
    /\ series_names \in [model : NameSet, obs : NameSet]
    /\ method \in Methods
    /\ tolerance = 0
    /\ resample = 0
    /\ how_resample = "mean"
    /\ aligned = NoResult
    /\ aligned_columns = <<>>
    /\ obs = <<>>
    /\ mod = <<>>
    /\ stats = NoResult
    /\ NoExtraction
    /\ NoLoading
    /\ NoPlotting
    /\ pc = "align"

NextNames == AlignSeries

SpecNames == InitNames /\ [][NextNames]_vars

\* the values an input array of calc_stats holds
StatVals == {NaN, PInf} \cup {Num(i) : i \in 0..MaxStat}

\* a direct call calc_stats(obs, mod) on two arrays of equal length
InitStats ==
    /\ \E n \in 0..MaxN : obs \in [1..n -> StatVals] /\ mod \in [1..n -> StatVals]
    /\ s_model = <<>>
    /\ s_obs = <<>>
    /\ method = "asof"
    /\ tolerance = 0
    /\ resample = 0
    /\ how_resample = "mean"
    /\ aligned = NoResult
    /\ series_names = ExtractorNames
    /\ aligned_columns = <<>>
    /\ stats = NoResult
    /\ NoExtraction
    /\ NoLoading
    /\ NoPlotting
    /\ pc = "call"

CalcStats ==
    /\ pc = "call"
    /\ stats' = [status |-> "ok", value |-> calc_stats(obs, mod)]
    /\ pc' = "returned"
    /\ UNCHANGED <<s_model, s_obs, method, tolerance, resample, how_resample,
                   aligned, series_names, aligned_columns, obs, mod>>
    /\ UNCHANGED <<extractVars, loadVars, plotVars>>

NextStats == CalcStats

SpecStats == InitStats /\ [][NextStats]_vars

\* the entries of a sequence
Range(q) == {q[k] : k \in 1..Len(q)}

\* the paths given to the dfs0 loaders: one file name in two directories, a
\* name that differs from it in case only, and two names that are attribute
\* names of a Dfs0Bundle
Path(dir, name) == [dir |-> dir, name |-> name]

Dfs0Paths ==
    {Path("d1", "a.dfs0"), Path("d2", "a.dfs0"), Path("d1", "A.dfs0"),
     Path("d1", "add.dfs0"), Path("d1", "_files.dfs0")}

MatPaths == {Path("d1", "m.mat"), Path("d2", "m.mat"), Path("d1", "n.mat")}

\* the dataset mikeio.read gives for the file at p: each file has its own
\* time axis, so that a loaded dataset tells which file it came from
FileDataset(p) ==
    LET start == CASE p = Path("d1", "a.dfs0") -> 0
                   [] p = Path("d2", "a.dfs0") -> 1
                   [] p = Path("d1", "A.dfs0") -> 2
                   [] p = Path("d1", "add.dfs0") -> 3
                   [] p = Path("d1", "_files.dfs0") -> 4
    IN  Dataset(<<start, start + 1>>, <<<<"a">>>>, ArrayOf(2, 1))

\* the values a field named like a time axis can hold: the date numbers of
\* 1-Jan-0001 0:00 and 12:00, one date number (squeeze_me makes a 1x1 matrix
\* a scalar), a NaN among the date numbers, a date number before 1-Jan-0001
TimeValues ==
    {Floats(<<Num(DatenumOffset + 1), Fin(2 * DatenumOffset + 3, 2)>>),
     Scalar(Num(DatenumOffset + 1)),
     Floats(<<Num(DatenumOffset + 1), NaN>>),
     Floats(<<Num(DatenumOffset)>>)}

\* a struct with a Speed and with the field f holding tv
Profile(f, tv) == Struct((f :> tv) @@ ("Speed" :> Floats(<<Num(1)>>)))

\* the structures around such a struct: itself, a struct with an array of
\* bins, a struct that holds it in a field named Time, an array of structs
Wrapped(inner) ==
    {inner,
     Struct(("Bins" :> Objects(<<inner, Profile("Time", Floats(<<Num(DatenumOffset + 2)>>))>>))),
     Struct(("Time" :> inner)),
     Objects(<<inner>>)}

\* what loadmat returns for a file: the header entries, a variable
\* profileStruct and, in some files, a variable named Time
MatFiles ==
    {("__header__" :> Scalar(Num(0))) @@ ("profileStruct" :> w) @@ top :
        w \in UNION {Wrapped(Profile(f, tv)) : f \in {"Time", "time", "Times"},
                                              tv \in TimeValues},
        top \in {<<>>, ("Time" :> Floats(<<Num(DatenumOffset + 1)>>))}}

\* the content of the file at p when several files are loaded
MatFileAt(p) ==
    ("__header__" :> Scalar(Num(0)))
        @@ ("profileStruct" :>
                Profile("Time",
                        Floats(<<Num(DatenumOffset + (CASE p = Path("d1", "m.mat") -> 1
                                                        [] p = Path("d2", "m.mat") -> 2
                                                        [] p = Path("d1", "n.mat") -> 3))>>)))

\* the lists of at most MaxFiles of the paths ps
FileLists(ps) == UNION {[1..n -> ps] : n \in 0..MaxFiles}

\* a disk whose paths are missing, unreadable or hold their file
DiskAt(states, content) ==
    [p \in DOMAIN states |->
        CASE states[p] = "missing" -> Missing
          [] states[p] = "unreadable" -> Unreadable
          [] states[p] = "file" -> File(content[p])]

\* the datasets given to dfs0_to_dataframes: two time steps and one item with
\* the data by time, by item, of three rows, 1-D, 3-D, or with two item names
ConvertibleSet ==
    {Dataset(<<0, 1>>, <<<<"a">>>>, data) :
        data \in {ArrayOf(2, 1), ArrayOf(1, 2), ArrayOf(3, 1),
                  [ndim |-> 1, shape |-> <<2>>, at |-> [r \in 1..2 |-> Num(10 * r)]],
                  [ndim |-> 3, shape |-> <<2, 1, 1>>]}}
        \cup {Dataset(<<0, 1>>, <<<<"a">>, <<"b">>>>, ArrayOf(2, 1))}

\* a call of one of the loaders, or of dfs0_to_dataframes
InitLoad ==
    /\ \/ /\ pc \in {"load_dfs0s", "load_dfs0s_to_dataframe"}
          /\ file_list \in FileLists(Dfs0Paths)
          /\ \E states \in [Range(file_list) -> {"missing", "unreadable", "file"}] :
                disk = DiskAt(states, [p \in Dfs0Paths |-> FileDataset(p)])
          /\ results = (IF pc = "load_dfs0s" THEN <<>> ELSE NewBundle)
          /\ datasets = <<>>
       \/ /\ pc = "load_mat_files"
          /\ \/ /\ file_list \in FileLists(MatPaths)
                /\ \E states \in [Range(file_list) -> {"missing", "unreadable", "file"}] :
                      disk = DiskAt(states, [p \in MatPaths |-> MatFileAt(p)])
             \/ /\ file_list = <<Path("d1", "m.mat")>>
                /\ \E mat \in MatFiles : disk = [p \in Range(file_list) |-> File(mat)]
          /\ results = <<>>
          /\ datasets = <<>>
       \/ /\ pc = "dfs0_to_dataframes"
          /\ \E keys \in SUBSET Dfs0Keys : datasets \in [keys -> ConvertibleSet]
          /\ file_list = <<>>
          /\ disk = <<>>
          /\ results = <<>>
    /\ next_file = 1
    /\ frames = NoResult
    /\ console = <<>>
    /\ dfs0file = NoResult
    /\ NoPlotting
    /\ dfs0_key = ""
    /\ item_query = <<>>
    /\ mat_data = <<>>
    /\ mat_key = ""
    /\ bin_index = 0
    /\ frame = <<>>
    /\ series = NoResult
    /\ series_base = ""
    /\ caller = ""
    /\ s_model = <<>>
    /\ s_obs = <<>>
    /\ method = "asof"
    /\ tolerance = 0
    /\ resample = 0
    /\ how_resample = "mean"
    /\ aligned = NoResult
    /\ series_names = ExtractorNames
    /\ aligned_columns = <<>>
    /\ obs = <<>>
    /\ mod = <<>>
    /\ stats = NoResult

\* the loaders, and where each is after its return
Loaders == {"load_dfs0s", "load_dfs0s_to_dataframe", "load_mat_files"}

ReturnedFrom(loader) ==
    CASE loader = "load_dfs0s" -> "load_dfs0s returned"
      [] loader = "load_dfs0s_to_dataframe" -> "load_dfs0s_to_dataframe returned"
      [] loader = "load_mat_files" -> "load_mat_files returned"

\* one turn of the loop of a loader leaves the inputs alone
LoopStep ==
    /\ next_file' = next_file + 1
    /\ UNCHANGED <<file_list, disk, frames, dfs0file, pc, alignVars, extractVars, plotVars>>

\* a path that cannot be read takes the entry of its base name away (a bug)
LoadDfs0sFileDroppingEntry ==
    /\ pc = "load_dfs0s"
    /\ next_file <= Len(file_list)
    /\ LET p == file_list[next_file]
       IN  CASE disk[p].state = "missing" ->
                  /\ console' = Append(console, Line("file not found", p))
                  /\ results' = results
             [] disk[p].state = "unreadable" ->
                  /\ console' = Append(console, Line("error loading", p))
                  /\ results' = [k \in DOMAIN results \ {p.name} |-> results[k]]
             [] disk[p].state = "file" ->
                  /\ results' = DictSet(results, p.name, disk[p].content)
                  /\ console' = Append(console, Line("loaded", p))
    /\ LoopStep

\* one turn of the loop of load_dfs0s, on the path file_list[next_file]
LoadDfs0sFile ==
    /\ pc = "load_dfs0s"
    /\ next_file <= Len(file_list)
    /\ LET p == file_list[next_file]
       IN  CASE disk[p].state = "missing" ->
                  /\ console' = Append(console, Line("file not found", p))
                  /\ results' = results
             [] disk[p].state = "unreadable" ->
                  /\ console' = Append(console, Line("error loading", p))
                  /\ results' = results
             [] disk[p].state = "file" ->
                  /\ results' = DictSet(results, p.name, disk[p].content)
                  /\ console' = Append(console, Line("loaded", p))
    /\ LoopStep

\* one turn of the loop of load_dfs0s_to_dataframe
LoadDfs0sToDataframeFile ==
    /\ pc = "load_dfs0s_to_dataframe"
    /\ next_file <= Len(file_list)
    /\ LET p == file_list[next_file]
           df == to_dataframe(disk[p].content)
           added == BundleAdd(results, StemLower[p.name], df)
       IN  CASE disk[p].state = "missing" ->
                  /\ console' = Append(console, Line("file not found", p))
                  /\ results' = results
             [] disk[p].state = "unreadable" ->
                  /\ console' = Append(console, Line("error loading", p))
                  /\ results' = results
             [] disk[p].state = "file" /\ df.status = "raised" ->
                  /\ console' = Append(console, Line("error loading", p))
                  /\ results' = results
             [] disk[p].state = "file" /\ df.status # "raised" ->
                  /\ results' = added.bundle
                  /\ console' = Append(console,
                        Line(IF added.status = "raised" THEN "error loading" ELSE "loaded", p))
    /\ LoopStep

\* one turn of the loop of load_mat_files
LoadMatFile ==
    /\ pc = "load_mat_files"
    /\ next_file <= Len(file_list)
    /\ LET p == file_list[next_file]
       IN  CASE disk[p].state = "missing" ->
                  /\ console' = Append(console, Line("file not found", p))
                  /\ results' = results
             [] disk[p].state = "unreadable" ->
                  /\ console' = Append(console, Line("error loading", p))
                  /\ results' = results
             [] disk[p].state = "file" ->
                  /\ results' = DictSet(results, p.name, LoadedMat(disk[p].content))
                  /\ console' = Append(console, Line("loaded", p))
    /\ LoopStep

\* the loop of a loader is over: return results (or the bundle)
LoaderReturn ==
    /\ pc \in Loaders
    /\ next_file > Len(file_list)
    /\ pc' = ReturnedFrom(pc)
    /\ UNCHANGED <<alignVars, extractVars, loadVars, plotVars>>

\* the call dfs0_to_dataframes(datasets)
DfsToDataframes ==
    /\ pc = "dfs0_to_dataframes"
    /\ frames' = dfs0_to_dataframes(datasets).frames
    /\ console' = console \o dfs0_to_dataframes(datasets).console
    /\ pc' = "dfs0_to_dataframes returned"
    /\ UNCHANGED <<file_list, disk, next_file, results, dfs0file, alignVars, extractVars, plotVars>>

NextLoad ==
    \/ LoadDfs0sFile \/ LoadDfs0sToDataframeFile \/ LoadMatFile
    \/ LoaderReturn \/ DfsToDataframes

SpecLoad == InitLoad /\ [][NextLoad]_vars

----------------------------------------------------------------------------
(* Dfs0File: the wrapper of one file's table.  A name (a column label, an   *)
(* attribute name) is the sequence of its characters.  The object is the    *)
(* record of _name, _df, parameters (the dict, a function from the original *)
(* names) and attrs, the function from the names of the attributes that     *)
(* setattr has set to their values.                                         *)

\* the greatest member of a non-empty set of integers
Greatest(S) == CHOOSE x \in S : \A y \in S : y <= x

\* the characters [0-9a-z] of the names of the model
Alnum ==
    {"a", "b", "d", "e", "f", "g", "h", "i", "m", "o", "p", "r", "s", "t", "w",
     "2", "3", "4", "5"}

\* str.strip(chars)
Strip(str, chars) ==
    LET keep == {k \in 1..Len(str) : str[k] \notin chars}
    IN  IF keep = {} THEN <<>> ELSE SubSeq(str, Least(keep), Greatest(keep))

RECURSIVE SubRuns(_)
\* re.sub(r"[^0-9a-z]+", "_", s): every run of other characters becomes "_"
SubRuns(str) ==
    IF str = <<>> THEN <<>>
    ELSE IF Head(str) \in Alnum THEN <<Head(str)>> \o SubRuns(Tail(str))
    ELSE LET rest == {k \in 2..Len(str) : str[k] \in Alnum}
         IN  <<"_">> \o (IF rest = {} THEN <<>>
                         ELSE SubRuns(SubSeq(str, Least(rest), Len(str))))

\* every character that is not [0-9a-z] becomes "_" (a bug: a run becomes
\* several)
sanitizeEachCharacter(name) ==
    Strip([k \in 1..Len(name) |->
              IF LowerChar(name[k]) \in Alnum THEN LowerChar(name[k]) ELSE "_"], {"_"})

\* Dfs0File._sanitize(name)
sanitize(name) == Strip(SubRuns(Lower(Strip(name, {" "}))), {"_"})

RECURSIVE Decimal(_)
\* str(i) of a positive integer
Decimal(i) ==
    LET digit == <<"1", "2", "3", "4", "5", "6", "7", "8", "9">>
    IN  IF i < 10 THEN <<(IF i = 0 THEN "0" ELSE digit[i])>>
        ELSE Decimal(i \div 10) \o <<(IF i % 10 = 0 THEN "0" ELSE digit[i % 10])>>

\* the attributes of every Dfs0File before a column is exposed: those of the
\* class (the property, the methods) and those __init__ has set
MemberNames ==
    {<<"d", "a", "t", "a", "f", "r", "a", "m", "e">>,
     <<"g", "e", "t">>,
     <<"s", "h", "o", "w", "_", "p", "a", "r", "a", "m", "e", "t", "e", "r", "s">>,
     <<"_", "s", "a", "n", "i", "t", "i", "z", "e">>,
     <<"_", "n", "a", "m", "e">>,
     <<"_", "d", "f">>,
     <<"p", "a", "r", "a", "m", "e", "t", "e", "r", "s">>}

AttrDatetime == <<"d", "a", "t", "e", "t", "i", "m", "e">>

\* hasattr(self, name)
HasAttr(obj, name) == name \in MemberNames \/ name \in DOMAIN obj.attrs

\* getattr(self, name), for a name the object has
GetAttr(obj, name) ==
    IF name \in DOMAIN obj.attrs THEN obj.attrs[name] ELSE [kind |-> "member", name |-> name]

\* df[col]: the column as a Series, or the table of the columns with that
\* label when there are several
ColumnOf(df, col) ==
    LET at == {k \in 1..Len(df.columns) : df.columns[k] = col}
    IN  IF Cardinality(at) = 1
        THEN [kind |-> "Series", name |-> col, column |-> Least(at)]
        ELSE [kind |-> "DataFrame", columns |-> at]

\* the first name the loop tries is taken whether it is in use or not (a bug)
FirstFreeUnchecked(safe, base, i, used, obj) == safe

RECURSIVE FirstFree(_, _, _, _, _)
\* while safe in used or hasattr(self, safe): safe = f"{base}_{i}"; i += 1
FirstFree(safe, base, i, used, obj) ==
    IF safe \in used \/ HasAttr(obj, safe)
    THEN FirstFree(base \o <<"_">> \o Decimal(i), base, i + 1, used, obj)
    ELSE safe

\* file[key]
GetItem(obj, key) ==
    IF key \in DOMAIN obj.parameters
    THEN [status |-> "ok", value |-> GetAttr(obj, obj.parameters[key])]
    ELSE IF HasAttr(obj, key)
    THEN [status |-> "ok", value |-> GetAttr(obj, key)]
    ELSE Raised(Error("KeyError", [key |-> key, available |-> DOMAIN obj.parameters]))

\* the column labels of the tables of the model: names that differ by case,
\* by the characters that are not letters or digits, a name that looks like
\* a suffixed one, names of attributes of the object, a name without a
\* letter or digit
ColumnNames ==
    {<<"a">>,
     <<"A">>,
     <<"a", "_", "2">>,
     <<" ", "a", ":">>,
     <<"a", " ", ":", "b">>,
     <<"g", "e", "t">>,
     <<"d", "a", "t", "e", "t", "i", "m", "e">>,
     <<":">>,
     <<"d", "a", "t", "a", "f", "r", "a", "m", "e">>,
     <<"p", "a", "r", "a", "m", "e", "t", "e", "r", "s">>,
     <<"s", "h", "o", "w", "_", "p", "a", "r", "a", "m", "e", "t", "e", "r", "s">>}

\* Dfs0File(name, df) up to the loop over the columns, for a table of up to
\* MaxColumns columns
InitFile ==
    /\ \E n \in 0..MaxColumns : \E columns \in [1..n -> ColumnNames] :
          dfs0file = [_name |-> "a",
                      _df |-> [index |-> <<0, 1>>, columns |-> columns],
                      parameters |-> <<>>,
                      attrs |-> (AttrDatetime :> [kind |-> "Index", index |-> <<0, 1>>])]
    /\ frame = [used |-> {}, col |-> 1]
    /\ pc = "Dfs0File"
    /\ file_list = <<>>
    /\ disk = <<>>
    /\ next_file = 1
    /\ results = <<>>
    /\ frames = NoResult
    /\ console = <<>>
    /\ NoPlotting
    /\ datasets = <<>>
    /\ dfs0_key = ""
    /\ item_query = <<>>
    /\ mat_data = <<>>
    /\ mat_key = ""
    /\ bin_index = 0
    /\ series = NoResult
    /\ series_base = ""
    /\ caller = ""
    /\ s_model = <<>>
    /\ s_obs = <<>>
    /\ method = "asof"
    /\ tolerance = 0
    /\ resample = 0
    /\ how_resample = "mean"
    /\ aligned = NoResult
    /\ series_names = ExtractorNames
    /\ aligned_columns = <<>>
    /\ obs = <<>>
    /\ mod = <<>>
    /\ stats = NoResult

\* one turn of the loop over df.columns: the column is set as the attribute
\* of the first free name and entered in parameters
ExposeColumn ==
    /\ pc = "Dfs0File"
    /\ frame.col <= Len(dfs0file._df.columns)
    /\ LET col == dfs0file._df.columns[frame.col]
           base == sanitize(col)
           safe == FirstFree(base, base, 2, frame.used, dfs0file)
       IN  /\ dfs0file' =
                 [dfs0file EXCEPT
                     !.attrs = DictSet(@, safe, ColumnOf(dfs0file._df, col)),
                     !.parameters = DictSet(@, col, safe)]
           /\ frame' = [used |-> frame.used \cup {safe}, col |-> frame.col + 1]
    /\ UNCHANGED <<datasets, dfs0_key, item_query, mat_data, mat_key, bin_index,
                   series, series_base, caller>>
    /\ UNCHANGED <<file_list, disk, next_file, results, frames, console, pc, alignVars, plotVars>>

\* the loop is over: the object is constructed
FileConstructed ==
    /\ pc = "Dfs0File"
    /\ frame.col > Len(dfs0file._df.columns)
    /\ pc' = "Dfs0File constructed"
    /\ UNCHANGED <<alignVars, extractVars, loadVars, plotVars>>

NextFile == ExposeColumn \/ FileConstructed

SpecFile == InitFile /\ [][NextFile]_vars

----------------------------------------------------------------------------
(* plot_dfs0_items_stacked, up to the end of its loop over the panels.  An  *)
(* argument is None, a value that is not a list (a string), or a list; the  *)
(* locals of the call are in frame: panel_defs, flat_names, then t and arr  *)
(* once the data is read, then pi (the panel of the next turn, from 1) and  *)
(* figs (the figures created so far).                                       *)

None == [kind |-> "None"]

NotAList == [kind |-> "str"]

List(items) == [kind |-> "list", items |-> items]

\* an item of the dataset to plot
ItemInfo(name, type, unit) == [name |-> name, type |-> type, unit |-> unit]

\* the items of the dataset: two speeds, a direction in degrees and one in
\* radians
PlotItems ==
    <<ItemInfo("u", "speed", "m/s"), ItemInfo("v", "speed", "m/s"),
      ItemInfo("d", "direction", "degree"), ItemInfo("r", "direction", "radian")>>

\* the datasets to plot: the data 2-D, by time or by item, or 3-D
PlotDatasets ==
    {Dataset(<<0, 1>>, PlotItems, data) :
        data \in {ArrayOf(2, 4), ArrayOf(4, 2), [ndim |-> 3, shape |-> <<2, 4, 1>>]}}

\* the names a request can hold: items, a name that differs from an item's
\* by case, a name of no item
PlotNames == {"u", "v", "d", "r", "U", "x"}

\* the values item_names can have: None or a list of names
ItemNameArgs == {None} \cup {List(q) : q \in UNION {[1..n -> PlotNames] : n \in 0..MaxPanelItems}}

\* the values a panel can have: a list of names or something else
PanelArgs == (ItemNameArgs \ {None}) \cup {NotAList}

\* the values panels can have: None, something that is not a list, a list
PanelsArgs ==
    {None, NotAList} \cup {List(q) : q \in UNION {[1..n -> PanelArgs] : n \in 0..MaxPanels}}

\* the first item whose name equals the query when lower-cased (a bug: the
\* match is exact)
find_item_index_exactIgnoringCase(ds, item_name) ==
    LET hit == {k \in 1..Len(ds.items) : ds.items[k].name = item_name
                    \/ (item_name = "U" /\ ds.items[k].name = "u")}
    IN  IF hit # {} THEN [status |-> "ok", i |-> Least(hit) - 1]
        ELSE Raised(Error("ValueError",
                 [item |-> item_name,
                  available |-> [k \in 1..Len(ds.items) |-> ds.items[k].name]]))

\* _find_item_index_exact(ds, item_name): the position (from 0) of the first
\* item with that very name
find_item_index_exact(ds, item_name) ==
    LET hit == {k \in 1..Len(ds.items) : ds.items[k].name = item_name}
    IN  IF hit # {} THEN [status |-> "ok", i |-> Least(hit) - 1]
        ELSE Raised(Error("ValueError",
                 [item |-> item_name,
                  available |-> [k \in 1..Len(ds.items) |-> ds.items[k].name]]))

\* the unit label of an item: radians are converted to degrees, and every
\* degree-like label is normalized to the degree sign (here "deg")
UnitLabel(unit) == IF unit \in {"radian", "degree"} THEN "deg" ELSE unit

\* _canonical_group_key(ds, idx, item_name, unit_label) of an item that has
\* a type
canonical_group_key(ds, idx, unit_label) == <<ds.items[idx + 1].type, unit_label>>

\* the key under which the item of that name is grouped
GroupKeyOf(ds, name) ==
    LET i == find_item_index_exact(ds, name).i
    IN  canonical_group_key(ds, i, UnitLabel(ds.items[i + 1].unit))

RECURSIVE Flatten(_)
\* [nm for group in panel_defs for nm in group]
Flatten(groups) == IF groups = <<>> THEN <<>> ELSE Head(groups) \o Flatten(Tail(groups))

\* flat_names.count(n)
CountOf(q, n) == Cardinality({k \in 1..Len(q) : q[k] = n})

\* a call plot_dfs0_items_stacked(ds, item_names, panels=panels)
InitPlot ==
    /\ \E ds \in PlotDatasets, panels \in PanelsArgs :
          \E item_names \in (IF panels \in {None, List(<<>>)} THEN ItemNameArgs
                             ELSE {None}) :
              plot_args = [ds |-> ds, item_names |-> item_names, panels |-> panels]
    /\ plot_result = NoResult
    /\ frame = <<>>
    /\ pc = "panels"
    /\ NoLoading
    /\ datasets = <<>>
    /\ dfs0_key = ""
    /\ item_query = <<>>
    /\ mat_data = <<>>
    /\ mat_key = ""
    /\ bin_index = 0
    /\ series = NoResult
    /\ series_base = ""
    /\ caller = ""
    /\ s_model = <<>>
    /\ s_obs = <<>>
    /\ method = "asof"
    /\ tolerance = 0
    /\ resample = 0
    /\ how_resample = "mean"
    /\ aligned = NoResult
    /\ series_names = ExtractorNames
    /\ aligned_columns = <<>>
    /\ obs = <<>>
    /\ mod = <<>>
    /\ stats = NoResult

\* the call raises e
PlotRaises(e) ==
    /\ plot_result' = e
    /\ pc' = "raised"
    /\ UNCHANGED frame

\* what a step of the call leaves alone
PlotStep == UNCHANGED <<plot_args, alignVars, loadVars, datasets, dfs0_key, item_query,
                        mat_data, mat_key, bin_index, series, series_base, caller>>

\* panel_defs from panels when it is given, else from item_names
ResolvePanels ==
    /\ pc = "panels"
    /\ LET panels == plot_args.panels
           item_names == plot_args.item_names
       IN  IF panels # None
           THEN IF panels.kind # "list"
                   \/ \E k \in 1..Len(panels.items) :
                         panels.items[k].kind # "list" \/ panels.items[k].items = <<>>
                THEN PlotRaises(Raised(Error("ValueError",
                         [message |-> "panels must be a list of non-empty lists of item names"])))
                ELSE /\ frame' = [panel_defs |->
                                     [k \in 1..Len(panels.items) |-> panels.items[k].items]]
                     /\ pc' = "duplicates"
                     /\ UNCHANGED plot_result
           ELSE IF item_names = None \/ item_names.items = <<>>
                THEN PlotRaises(Raised(Error("ValueError",
                         [message |-> "item_names cannot be empty"])))
                ELSE /\ frame' = [panel_defs |->
                                     [k \in 1..Len(item_names.items) |-> <<item_names.items[k]>>]]
                     /\ pc' = "duplicates"
                     /\ UNCHANGED plot_result
    /\ PlotStep

\* flat_names; a name that occurs more than once raises
CheckDuplicates ==
    /\ pc = "duplicates"
    /\ LET flat_names == Flatten(frame.panel_defs)
       IN  IF Cardinality(Range(flat_names)) # Len(flat_names)
           THEN PlotRaises(Raised(Error("ValueError",
                    [duplicates |-> {n \in Range(flat_names) : CountOf(flat_names, n) > 1}])))
           ELSE /\ frame' = [panel_defs |-> frame.panel_defs, flat_names |-> flat_names]
                /\ pc' = "items"
                /\ UNCHANGED plot_result
    /\ PlotStep

\* every name is looked up; the names that are not found are raised together
ValidateItems ==
    /\ pc = "items"
    /\ LET ds == plot_args.ds
           NotFound(nm) == find_item_index_exact(ds, nm).status = "raised"
           missing == SelectSeq(frame.flat_names, NotFound)
       IN  IF missing # <<>>
           THEN PlotRaises(Raised(Error("ValueError",
                    [missing |-> missing,
                     available |-> [k \in 1..Len(ds.items) |-> ds.items[k].name]])))
           ELSE /\ pc' = "data"
                /\ UNCHANGED <<frame, plot_result>>
    /\ PlotStep

\* t, arr = _time_and_matrix(ds); the indices, the series, the unit labels,
\* the groups and their ranges are computed from them
TimeAndMatrix ==
    /\ pc = "data"
    /\ LET tm == time_and_matrix(plot_args.ds)
       IN  IF tm.status = "raised" THEN PlotRaises(tm)
           ELSE /\ frame' = [panel_defs |-> frame.panel_defs, flat_names |-> frame.flat_names,
                             t |-> tm.t, arr |-> tm.arr, pi |-> 1, figs |-> 0]
                /\ pc' = "panel"
                /\ UNCHANGED plot_result
    /\ PlotStep

\* one turn of the loop over the panels: the panel's items must have one
\* grouping key; then its figure is created
PlotPanel ==
    /\ pc = "panel"
    /\ frame.pi <= Len(frame.panel_defs)
    /\ LET panel_names == frame.panel_defs[frame.pi]
           panel_keys == {GroupKeyOf(plot_args.ds, nm) : nm \in Range(panel_names)}
       IN  IF Cardinality(panel_keys) # 1
           THEN PlotRaises(Raised(Error("ValueError",
                    [panel |-> frame.pi,
                     message |-> "contains items with different quantities/units"])))
           ELSE /\ frame' = [frame EXCEPT !.pi = @ + 1, !.figs = @ + 1]
                /\ UNCHANGED <<pc, plot_result>>
    /\ PlotStep

\* the loop over the panels is over
PanelsPlotted ==
    /\ pc = "panel"
    /\ frame.pi > Len(frame.panel_defs)
    /\ pc' = "panels plotted"
    /\ UNCHANGED <<frame, plot_result>>
    /\ PlotStep

NextPlot ==
    \/ ResolvePanels \/ CheckDuplicates \/ ValidateItems \/ TimeAndMatrix
    \/ PlotPanel \/ PanelsPlotted

SpecPlot == InitPlot /\ [][NextPlot]_vars

----------------------------------------------------------------------------
(* Properties of align_series. *)

RECURSIVE SumFn(_)
\* the sum of an integer-valued function with a finite domain
SumFn(f) ==
    IF DOMAIN f = {} THEN 0
    ELSE LET i == CHOOSE i \in DOMAIN f : TRUE
         IN  f[i] + SumFn([j \in DOMAIN f \ {i} |-> f[j]])

\* align_series has returned or raised
Aligned == pc \in {"stats", "raised", "done"}

\* the timestamps of a series
TimeSet(s) == {s[i].t : i \in 1..Len(s)}

\* the timestamps at which a series holds a value that is not NaN
PresentTimes(s) == {s[i].t : i \in {j \in 1..Len(s) : ~IsNaN(s[j].v)}}

\* no two rows of the table have the same timestamp
UniqueRowTimes(rows) == \A i, j \in 1..Len(rows) : rows[i].t = rows[j].t => i = j

\* a call with method="inner" and no resampling that returned
InnerReturned ==
    Aligned /\ method = "inner" /\ resample = 0 /\ aligned.status = "ok"

\* C1 as stated: with method="inner" the number of output rows equals the
\* number of timestamps that occur in both input series, and no two output
\* rows have the same timestamp.
C1_InnerCountsSharedTimes ==
    InnerReturned =>
        /\ Len(aligned.rows) = Cardinality(TimeSet(s_model) \cap TimeSet(s_obs))
        /\ UniqueRowTimes(aligned.rows)

\* C1 as amended: with method="inner" and no resampling, whenever a table is
\* returned, the number of output rows equals the number of timestamps that
\* occur in both input series with a value that is not NaN on both sides, the
\* output timestamps are exactly those, and no two output rows have the same
\* timestamp.
C1_InnerCountsSharedPresentTimes ==
    InnerReturned =>
        /\ Len(aligned.rows) = Cardinality(PresentTimes(s_model) \cap PresentTimes(s_obs))
        /\ {aligned.rows[i].t : i \in 1..Len(aligned.rows)}
               = PresentTimes(s_model) \cap PresentTimes(s_obs)
        /\ UniqueRowTimes(aligned.rows)

\* C1 witness: an inner join that returned a row and left out a model
\* timestamp the observed series does not hold.
C1_Witness ==
    /\ InnerReturned
    /\ Len(aligned.rows) >= 1
    /\ TimeSet(s_model) \ TimeSet(s_obs) # {}

\* |a - b|
Dist(a, b) == Abs(a - b)

\* o is an observed timestamp and no observed timestamp is nearer to m
IsNearest(o, m) ==
    /\ o \in TimeSet(s_obs)
    /\ \A p \in TimeSet(s_obs) : Dist(o, m) <= Dist(p, m)

\* the observed timestamp nearest to m, the later one of two equally near
NearestTime(m) ==
    CHOOSE o \in TimeSet(s_obs) : IsNearest(o, m) /\ \A p \in TimeSet(s_obs) : IsNearest(p, m) => p <= o

\* the observed value at the timestamp o of an observed series with distinct
\* timestamps
ObsAt(o) == s_obs[CHOOSE j \in 1..Len(s_obs) : s_obs[j].t = o].v

\* a call with method="asof" and no resampling, on an observed series with
\* distinct timestamps, that returned
AsofReturned ==
    /\ Aligned /\ method = "asof" /\ resample = 0 /\ aligned.status = "ok"
    /\ ~HasDup(s_obs)

\* C2 as stated: with method="asof", a model timestamp whose nearest observed
\* timestamp is farther than the tolerance has no output row, and one whose
\* nearest observed timestamp is within the tolerance has an output row that
\* carries the observed value of a nearest observed timestamp.
C2_AsofPairsNearestWithinTolerance ==
    AsofReturned =>
        \A i \in 1..Len(s_model) :
            LET m == s_model[i].t
            IN  TimeSet(s_obs) # {} =>
                  IF Dist(NearestTime(m), m) > tolerance
                  THEN \A k \in 1..Len(aligned.rows) : aligned.rows[k].t # m
                  ELSE \E k \in 1..Len(aligned.rows) :
                          /\ aligned.rows[k].t = m
                          /\ \E o \in TimeSet(s_obs) :
                                IsNearest(o, m) /\ aligned.rows[k].obs = ObsAt(o)

\* the model row (m, x) is paired: an observed timestamp lies within the
\* tolerance of m, and neither x nor the observed value at the nearest one
\* is NaN
Paired(m, x) ==
    /\ TimeSet(s_obs) # {}
    /\ Dist(NearestTime(m), m) <= tolerance
    /\ ~IsNaN(x)
    /\ ~IsNaN(ObsAt(NearestTime(m)))

\* C2 as amended: with method="asof", no resampling and an observed series
\* with distinct timestamps, a model row (m, x) yields exactly one output row
\* (m, x, y), where y is the observed value at the observed timestamp nearest
\* to m (the later one of two equally near), if that timestamp is within the
\* tolerance of m and neither x nor y is NaN; otherwise it yields no output
\* row.
C2_AsofPairsNearestPresentWithinTolerance ==
    AsofReturned =>
        /\ \A k \in 1..Len(aligned.rows) :
              /\ Paired(aligned.rows[k].t, aligned.rows[k].model)
              /\ aligned.rows[k].obs = ObsAt(NearestTime(aligned.rows[k].t))
        /\ \A r \in Rows :
              Cardinality({k \in 1..Len(aligned.rows) :
                              aligned.rows[k].t = r.t /\ aligned.rows[k].model = r.v})
                = IF Paired(r.t, r.v)
                  THEN Cardinality({i \in 1..Len(s_model) : s_model[i] = r})
                  ELSE 0

\* C2 witness: an asof join that paired one model timestamp with an observed
\* timestamp that is near but not equal, and dropped another model timestamp
\* whose nearest observed timestamp is farther than the tolerance.
C2_Witness ==
    /\ AsofReturned
    /\ \E k \in 1..Len(aligned.rows) : aligned.rows[k].t \notin TimeSet(s_obs)
    /\ \E i \in 1..Len(s_model) :
          /\ ~IsNaN(s_model[i].v)
          /\ TimeSet(s_obs) # {}
          /\ Dist(NearestTime(s_model[i].t), s_model[i].t) > tolerance
          /\ ~IsNaN(ObsAt(NearestTime(s_model[i].t)))

\* C3 as stated: every row of the table align_series returns has a model
\* value and an observed value that are present and finite, and so has every
\* pair that reaches calc_stats through compare_speed_stats.
C3_RowsPresentAndFinite ==
    /\ (Aligned /\ aligned.status = "ok") =>
          \A k \in 1..Len(aligned.rows) :
              IsFinite(aligned.rows[k].model) /\ IsFinite(aligned.rows[k].obs)
    /\ pc = "done" =>
          \A k \in 1..Len(obs) : IsFinite(obs[k]) /\ IsFinite(mod[k])

\* C3 as amended: every row of the table align_series returns (every method,
\* with or without resampling) has a model value and an observed value that
\* are not NaN, and so has every pair that reaches calc_stats through
\* compare_speed_stats; an infinite value is not missing and stays in the
\* table.
C3_RowsPresent ==
    /\ (Aligned /\ aligned.status = "ok") =>
          \A k \in 1..Len(aligned.rows) :
              ~IsNaN(aligned.rows[k].model) /\ ~IsNaN(aligned.rows[k].obs)
    /\ pc = "done" =>
          /\ Len(obs) = Len(aligned.rows) /\ Len(mod) = Len(aligned.rows)
          /\ \A k \in 1..Len(obs) : ~IsNaN(obs[k]) /\ ~IsNaN(mod[k])

\* C3 witness: a table that lost a row with a missing value, kept a row with
\* an infinite value and was passed on to calc_stats.
C3_Witness ==
    /\ pc = "done"
    /\ \E i \in 1..Len(s_obs) : IsNaN(s_obs[i].v)
    /\ Len(aligned.rows) < Len(s_model)
    /\ \E k \in 1..Len(obs) : ~IsFinite(obs[k])

\* no input series holds a timestamp twice, or the series are resampled
DistinctTimes == resample # 0 \/ (~HasDup(s_model) /\ ~HasDup(s_obs))

\* C10 as stated: for every pair of input series and every resample setting,
\* method="outer" returns what method="inner" returns.
C10_OuterIsInner ==
    (Aligned /\ method = "outer") =>
        aligned = align_series(s_model, s_obs, "inner", tolerance, resample, how_resample)

\* C10 as amended: for every pair of input series of which neither holds a
\* timestamp twice, and for every pair with resampling set, method="outer"
\* returns the same table as method="inner".
C10_OuterIsInnerOnDistinctTimes ==
    (Aligned /\ method = "outer" /\ DistinctTimes) =>
        /\ aligned.status = "ok"
        /\ aligned = align_series(s_model, s_obs, "inner", tolerance, resample, how_resample)

\* C10 witness: an outer join, of two series with different timestamps and a
\* shared one, that returned a row.
C10_Witness ==
    /\ Aligned /\ method = "outer" /\ DistinctTimes /\ resample = 0
    /\ TimeSet(s_model) \ TimeSet(s_obs) # {}
    /\ TimeSet(s_obs) \ TimeSet(s_model) # {}
    /\ aligned.status = "ok"
    /\ Len(aligned.rows) >= 1

\* what an unknown method raises
MethodError == Raised("ValueError: method must be one of: 'inner', 'asof', 'outer'")

\* C11 as stated: align_series called with a method other than 'inner',
\* 'outer' or 'asof' fails with the ValueError that names the three accepted
\* methods and returns no table, whatever the other arguments are (stated for
\* series that are not empty).
C11_UnknownMethodAlwaysValueError ==
    (Aligned /\ method \notin Methods /\ s_model # <<>> /\ s_obs # <<>>) =>
        aligned = MethodError

\* C11 as amended: align_series called with a method other than 'inner',
\* 'outer' or 'asof' fails with the ValueError that names the three accepted
\* methods and returns no table, whenever resample is not set or how_resample
\* is one of mean, median and sum; with resample set and another how_resample
\* it fails with a KeyError instead.  These are the only two validations: a
\* call with an accepted method, and resample not set or an accepted
\* how_resample, on series without repeated timestamps returns a table.
C11_UnknownMethodValueErrorAfterResample ==
    Aligned =>
        /\ (method \notin Methods /\ (resample = 0 \/ how_resample \in Hows)) =>
              aligned = MethodError /\ pc = "raised"
        /\ (method \notin Methods /\ resample # 0 /\ how_resample \notin Hows) =>
              aligned = Raised("KeyError") /\ pc = "raised"
        /\ (method \in Methods /\ (resample = 0 \/ how_resample \in Hows)
              /\ DistinctTimes) =>
              aligned.status = "ok"

\* C11 witness: a call with an unknown method, resampling with an accepted
\* aggregation and series that would align, that raised.
C11_Witness ==
    /\ Aligned /\ method \notin Methods
    /\ resample # 0 /\ how_resample \in Hows
    /\ TimeSet(s_model) \cap TimeSet(s_obs) # {}
    /\ aligned.status = "raised" /\ pc = "raised"

\* the rows of s in the bucket [b, b + resample) whose value is not NaN
InBucket(s, b) ==
    {i \in 1..Len(s) : b <= s[i].t /\ s[i].t < b + resample /\ ~IsNaN(s[i].v)}

\* the sum of their (integer) values
BucketSum(s, b) == SumFn([i \in InBucket(s, b) |-> s[i].v.n])

\* the k-th smallest of their values
KthSmallest(s, b, k) ==
    CHOOSE x \in {s[i].v.n : i \in InBucket(s, b)} :
        /\ Cardinality({i \in InBucket(s, b) : s[i].v.n < x}) < k
        /\ k <= Cardinality({i \in InBucket(s, b) : s[i].v.n <= x})

\* the mean, median or sum of the bucket, by definition
ExpectedAggregate(s, b) ==
    LET c == Cardinality(InBucket(s, b))
    IN  CASE how_resample = "sum" -> Num(BucketSum(s, b))
          [] how_resample = "mean" -> IF c = 0 THEN NaN ELSE Fin(BucketSum(s, b), c)
          [] how_resample = "median" ->
                IF c = 0 THEN NaN
                ELSE IF c % 2 = 1 THEN Num(KthSmallest(s, b, (c + 1) \div 2))
                ELSE Fin(KthSmallest(s, b, c \div 2) + KthSmallest(s, b, c \div 2 + 1), 2)

\* C12: with resample set and how_resample one of mean, median and sum, every
\* row of the table carries, for its bucket, the named aggregate of the model
\* values and the named aggregate of the observed values of that bucket, each
\* computed from its own series; with resample set and another how_resample
\* the call raises KeyError whatever the method and the series are; with
\* resample not set the result does not depend on how_resample and is never
\* that KeyError.
C12_ResampleAggregatesByHow ==
    Aligned =>
        /\ (resample # 0 /\ how_resample \notin Hows) =>
              aligned = Raised("KeyError") /\ pc = "raised"
        /\ (resample # 0 /\ how_resample \in Hows /\ method \in Methods) =>
              /\ aligned.status = "ok"
              /\ \A k \in 1..Len(aligned.rows) :
                    /\ aligned.rows[k].t % resample = 0
                    /\ aligned.rows[k].model = ExpectedAggregate(s_model, aligned.rows[k].t)
                    /\ aligned.rows[k].obs = ExpectedAggregate(s_obs, aligned.rows[k].t)
        /\ resample = 0 =>
              /\ aligned = align_series(s_model, s_obs, method, tolerance, 0, "mean")
              /\ aligned.status = "raised" => aligned.error # "KeyError"

\* C12 witness: a returned row whose model bucket holds three values with a
\* median that is not their mean.
C12_Witness ==
    /\ Aligned /\ resample # 0 /\ how_resample = "median" /\ aligned.status = "ok"
    /\ \E k \in 1..Len(aligned.rows) :
          /\ Cardinality(InBucket(s_model, aligned.rows[k].t)) = 3
          /\ aligned.rows[k].model # Fin(BucketSum(s_model, aligned.rows[k].t), 3)

\* the bucket b occurs in the resampled series of s: a timestamp of s lies in
\* it or before it, and one in it or after it
InGrid(s, b) ==
    /\ b % resample = 0
    /\ \E t \in TimeSet(s) : t < b + resample
    /\ \E t \in TimeSet(s) : b <= t

\* the buckets that occur in both resampled series with an aggregate that is
\* not missing on either side
CommonBuckets ==
    {b \in 0..MaxTime :
        /\ InGrid(s_model, b) /\ InGrid(s_obs, b)
        /\ ~IsNaN(ExpectedAggregate(s_model, b))
        /\ ~IsNaN(ExpectedAggregate(s_obs, b))}

\* C13: align_series with a resample grid and method="inner" returns exactly
\* one row per bucket of the grid that occurs in both resampled series and
\* whose aggregate is not missing on both sides; its row count is the number
\* of such buckets.
C13_ResampledInnerCountsCommonBuckets ==
    (Aligned /\ method = "inner" /\ resample # 0 /\ how_resample \in Hows) =>
        /\ aligned.status = "ok"
        /\ Len(aligned.rows) = Cardinality(CommonBuckets)
        /\ {aligned.rows[k].t : k \in 1..Len(aligned.rows)} = CommonBuckets
        /\ UniqueRowTimes(aligned.rows)

\* C13 witness: a table with a row for a bucket that holds no value on either
\* side (a sum of nothing) and without a row for a bucket of both grids whose
\* aggregate is missing.
C13_Witness ==
    /\ Aligned /\ method = "inner" /\ resample # 0 /\ aligned.status = "ok"
    /\ \E k \in 1..Len(aligned.rows) :
          InBucket(s_model, aligned.rows[k].t) = {} /\ InBucket(s_obs, aligned.rows[k].t) = {}

\* a call with method="asof" that returned a table
AsofTable == pc \in {"stats", "done"} /\ method = "asof"

\* the model series that is joined: the sorted model series, resampled if a
\* rule is given
JoinedModel ==
    IF resample = 0 THEN sort_index(s_model)
    ELSE Resample(sort_index(s_model), resample, how_resample)

\* the observed series that is joined
JoinedObs ==
    IF resample = 0 THEN sort_index(s_obs)
    ELSE Resample(sort_index(s_obs), resample, how_resample)

\* the number of rows of a sequence that satisfy P
CountRows(rows, P(_)) == Cardinality({k \in 1..Len(rows) : P(rows[k])})

\* the nearest observed value of the model timestamp m is missing: the
\* observed row nearest to m (the later of two equally near) holds NaN
NearestObsMissing(m) ==
    /\ JoinedObs # <<>>
    /\ IsNaN(JoinedObs[NearestRow(JoinedObs, m)].v)

\* C26 as stated: with method="asof" every output timestamp is a timestamp of
\* the model series, each model timestamp yields at most one output row, the
\* output model value is the model series' value at that timestamp, the
\* output timestamps increase, and a model timestamp whose nearest observed
\* value is missing has no output row.  (Stated for the calls without
\* resampling.)
C26_AsofLeftJoinOnModelTime ==
    (AsofTable /\ resample = 0) =>
        /\ \A k \in 1..Len(aligned.rows) :
              \E i \in 1..Len(s_model) :
                  s_model[i].t = aligned.rows[k].t /\ s_model[i].v = aligned.rows[k].model
        /\ \A k, l \in 1..Len(aligned.rows) : k < l => aligned.rows[k].t < aligned.rows[l].t
        /\ ~HasDup(JoinedObs) =>
              \A i \in 1..Len(s_model) :
                  NearestObsMissing(s_model[i].t) =>
                      \A k \in 1..Len(aligned.rows) : aligned.rows[k].t # s_model[i].t

\* C26, amended: with method="asof" the table is a left join on the rows of
\* the joined model series (the model series sorted by time; with a resample
\* rule, its buckets): every output row has the timestamp and the value of a
\* row of that series, each of its rows yields at most one output row (a
\* timestamp that the model series holds n times yields at most n rows), the
\* output timestamps do not decrease, and a row whose nearest observed value
\* is missing has no output row.
C26_AsofLeftJoinOnModelRows ==
    AsofTable =>
        /\ \A k \in 1..Len(aligned.rows) :
              \E i \in 1..Len(JoinedModel) :
                  /\ JoinedModel[i].t = aligned.rows[k].t
                  /\ JoinedModel[i].v = aligned.rows[k].model
        /\ \A i \in 1..Len(JoinedModel) :
              CountRows(aligned.rows,
                        LAMBDA r : r.t = JoinedModel[i].t /\ r.model = JoinedModel[i].v)
                <= CountRows(JoinedModel, LAMBDA r : r = JoinedModel[i])
        /\ \A k, l \in 1..Len(aligned.rows) : k < l => aligned.rows[k].t <= aligned.rows[l].t
        /\ ~HasDup(JoinedModel) =>
              \A k, l \in 1..Len(aligned.rows) : k < l => aligned.rows[k].t < aligned.rows[l].t
        /\ ~HasDup(JoinedObs) =>
              \A i \in 1..Len(JoinedModel) :
                  NearestObsMissing(JoinedModel[i].t) =>
                      \A k \in 1..Len(aligned.rows) : aligned.rows[k].t # JoinedModel[i].t

\* an asof join without resampling in which the one observed point is paired
\* with two model timestamps, and the model series was given in decreasing
\* time
C26_Witness ==
    /\ AsofTable
    /\ resample = 0
    /\ Len(aligned.rows) = 2
    /\ aligned.rows[1].t < aligned.rows[2].t
    /\ Len(s_obs) = 1
    /\ Len(s_model) = 2
    /\ s_model[1].t > s_model[2].t

\* C24: for every method and whatever the names of the input series, the
\* table returned by align_series has exactly the columns 'model' and 'obs',
\* the first holding values of the first argument and the second values of
\* the second argument.
C24_ColumnsModelObs ==
    (pc = "stats" /\ aligned.rows # <<>>) =>
        /\ aligned_columns = <<"model", "obs">>
        /\ \A i \in 1..Len(aligned.rows) :
              /\ \E k \in 1..Len(s_model) :
                    s_model[k].t = aligned.rows[i].t /\ s_model[k].v = aligned.rows[i].model
              /\ \E k \in 1..Len(s_obs) : s_obs[k].v = aligned.rows[i].obs

----------------------------------------------------------------------------
(* Properties of the extractors. *)

\* a call of get_dfs0_speed_series, of get_hg_speed_series
Dfs0Call == dfs0_key # ""

HgCall == mat_key # ""

\* the extractor has returned or raised
Extracted == pc \in {"extracted", "raised"}

\* the dataset the call selects
Selected == datasets[dfs0_key]

\* two characters are the same letter
SameLetter(c, d) ==
    c = d \/ (c = "a" /\ d = "A") \/ (c = "A" /\ d = "a")

\* the name equals the query, ignoring case
EqualsIgnoringCase(name, query) ==
    /\ Len(name) = Len(query)
    /\ \A k \in 1..Len(name) : SameLetter(name[k], query[k])

\* the name contains the query, ignoring case
ContainsIgnoringCase(name, query) ==
    \E off \in 0..(Len(name) - Len(query)) :
        \A k \in 1..Len(query) : SameLetter(name[off + k], query[k])

\* the positions (from 1) of the items that equal, that contain the query
EqualItems == {k \in 1..Len(Selected.items) : EqualsIgnoringCase(Selected.items[k], item_query)}

ContainingItems ==
    {k \in 1..Len(Selected.items) : ContainsIgnoringCase(Selected.items[k], item_query)}

\* the item lookup has returned a position
Found == Dfs0Call /\ "i" \in DOMAIN frame

\* C14: if some item name equals the query ignoring case, the lookup returns
\* the position of the first such item, even when an earlier item contains the
\* query; only when no item name equals it does it return the first item
\* whose name contains the query ignoring case; the series returned holds
\* that item's column.
C14_ExactBeforeSubstring ==
    Found =>
        /\ EqualItems # {} =>
              frame.i + 1 \in EqualItems /\ \A k \in EqualItems : frame.i + 1 <= k
        /\ EqualItems = {} =>
              frame.i + 1 \in ContainingItems /\ \A k \in ContainingItems : frame.i + 1 <= k
        /\ pc = "extracted" =>
              \A k \in 1..Len(series.rows) :
                  series.rows[k].v = frame.arr.at[<<k, frame.i + 1>>]

\* C14 witness: a query that differs in case from the second item's name,
\* which it equals, while the first item's name contains it; the second item
\* is returned.
C14_Witness ==
    /\ Found /\ pc = "extracted"
    /\ frame.i = 1
    /\ Selected.items[2] # item_query
    /\ 1 \in ContainingItems \ EqualItems

\* the ValueError of a failed lookup: the query and the names of all items
ItemNotFound ==
    Raised(Error("ValueError", [item |-> item_query, available |-> Selected.items]))

\* no item name of the selected dataset equals or contains the query
NoItemMatches ==
    /\ Dfs0Call /\ dfs0_key \in DOMAIN datasets
    /\ ContainingItems = {}

\* C15 as stated: if no item name of the selected dataset equals or contains
\* the query, get_dfs0_speed_series fails with the lookup error that names
\* the query and lists every item name, and returns no series (stated for
\* datasets with time steps).
C15_NoMatchLookupError ==
    (NoItemMatches /\ Extracted /\ Selected.time # <<>>) =>
        pc = "raised" /\ series = ItemNotFound

\* C15 as amended: if the selected dataset's array is two-dimensional and no
\* item name equals or contains the query, get_dfs0_speed_series fails with
\* the lookup error that names the query and lists every item name, and
\* returns no series; if the array is not two-dimensional it fails with the
\* shape error before the items are looked at.
C15_NoMatchLookupErrorOn2D ==
    (NoItemMatches /\ Extracted) =>
        /\ pc = "raised"
        /\ "i" \notin DOMAIN frame
        /\ Selected.data.ndim = 2 => series = ItemNotFound
        /\ Selected.data.ndim # 2 => series = Raised(Error("ValueError", UnexpectedShape))

\* C15 witness: a failed lookup of a query of two characters in a dataset of
\* three items, one of which holds the query's first character.
C15_Witness ==
    /\ NoItemMatches /\ pc = "raised"
    /\ Len(item_query) = 2 /\ Len(Selected.items) = 3
    /\ \E k \in 1..3 : ContainsIgnoringCase(Selected.items[k], <<item_query[1]>>)
    /\ series.error.about.available = Selected.items

\* C16: if dfs0_key is not a key of datasets, get_dfs0_speed_series raises a
\* KeyError that names the key and the available keys, for every item_query,
\* with no dataset read and no item looked up; if mat_key is not a key of
\* mat_data, get_hg_speed_series raises such a KeyError before it looks into
\* any file's variables.
C16_MissingKeyRaisesFirst ==
    /\ (Dfs0Call /\ dfs0_key \notin DOMAIN datasets /\ pc # "dfs0_key") =>
          /\ pc = "raised"
          /\ series = Raised(Error("KeyError",
                         [key |-> dfs0_key, available |-> DOMAIN datasets]))
          /\ frame = <<>>
    /\ (HgCall /\ mat_key \notin DOMAIN mat_data /\ pc # "mat_key") =>
          /\ pc = "raised"
          /\ series = Raised(Error("KeyError",
                         [key |-> mat_key, available |-> DOMAIN mat_data]))
          /\ frame = <<>>

\* C16 witness: a call with a key that is not among the two keys of datasets
\* and a query that an item of one of them matches.
C16_Witness ==
    /\ Dfs0Call /\ pc = "raised"
    /\ dfs0_key \notin DOMAIN datasets
    /\ Cardinality(DOMAIN datasets) = 2
    /\ \E k \in DOMAIN datasets : item_query \in {datasets[k].items[j] : j \in 1..Len(datasets[k].items)}

\* the selected dataset has time steps and items, and its array is 2-D with
\* no empty axis and no axis of as many entries as there are timestamps
NoAxisOfTimeLength ==
    /\ Dfs0Call /\ dfs0_key \in DOMAIN datasets
    /\ Selected.time # <<>> /\ Selected.items # <<>>
    /\ Selected.data.ndim = 2
    /\ Selected.data.shape[1] \notin {0, Len(Selected.time)}
    /\ Selected.data.shape[2] \notin {0, Len(Selected.time)}

\* _dataset_to_dataframe and _time_and_matrix return, for the selected
\* dataset, a table and an array of as many rows as there are timestamps, or
\* raise
OtherRoutinesRowsMatch ==
    (Dfs0Call /\ dfs0_key \in DOMAIN datasets) =>
        /\ dataset_to_dataframe(Selected).status = "ok" =>
              dataset_to_dataframe(Selected).shape[1] = Len(Selected.time)
        /\ time_and_matrix(Selected).status = "ok" =>
              time_and_matrix(Selected).arr.shape[1] = Len(Selected.time)
        /\ NoAxisOfTimeLength =>
              /\ dataset_to_dataframe(Selected).status = "raised"
              /\ time_and_matrix(Selected).status = "raised"

\* C19: a dataset whose array has no axis of as many entries as there are
\* timestamps is rejected by _ensure_time_items (and so by
\* get_dfs0_speed_series), by _dataset_to_dataframe and by _time_and_matrix:
\* none of them returns an array or a series whose number of rows is not the
\* number of timestamps.
C19_RowsMatchTimestamps ==
    /\ OtherRoutinesRowsMatch
    /\ (Dfs0Call /\ pc = "extracted") => Len(series.rows) = Len(Selected.time)
    /\ (NoAxisOfTimeLength /\ pc # "dfs0_key") => "arr" \notin DOMAIN frame
    /\ (Dfs0Call /\ "arr" \in DOMAIN frame /\ Selected.time # <<>>
           /\ 0 \notin Range(Selected.data.shape)) =>
          frame.arr.shape[1] = Len(frame.t)

\* the timestamps of a series do not decrease
SortedByTime(rows) == \A i, j \in 1..Len(rows) : i < j => rows[i].t <= rows[j].t

\* the time axis of the source of the call: ds.time of the selected dataset,
\* the Time of the selected bin
SourceTime ==
    IF Dfs0Call THEN Selected.time
    ELSE BinAt(mat_data[mat_key].profileStruct.Bins, bin_index).b.Time

\* C21 as stated: a series returned by get_dfs0_speed_series or
\* get_hg_speed_series is sorted by timestamp, whatever the order of the
\* timestamps in the source.
C21_ExtractedSeriesSorted ==
    pc = "extracted" => SortedByTime(series.rows)

\* C21, amended: a series returned by an extractor holds the timestamps of
\* its source in the order of the source (pd.Series(y, index=t) does not
\* sort), so it is sorted exactly when the source is.
C21_ExtractedSeriesInSourceOrder ==
    pc = "extracted" =>
        /\ Times(series.rows) = SourceTime
        /\ SortedByTime(series.rows) <=> (\A i, j \in 1..Len(SourceTime) :
                                              i < j => SourceTime[i] <= SourceTime[j])

\* an extractor has returned a series of two rows in decreasing time
C21_Witness ==
    /\ pc = "extracted"
    /\ Len(series.rows) = 2
    /\ series.rows[1].t > series.rows[2].t
    /\ SourceTime = <<1, 0>>

----------------------------------------------------------------------------
(* Properties of compare_speed_stats. *)

\* the model extraction has returned its series to compare_speed_stats
ModelExtracted == series_names.model = "model"

\* the observed extraction has returned its series to compare_speed_stats
ObsExtracted == series_names.obs = "obs"

BadDfs0Key == dfs0_key \notin DOMAIN datasets

\* no item name of the dataset contains the query
BadItem ==
    /\ ~BadDfs0Key
    /\ \A k \in 1..Len(datasets[dfs0_key].items) :
          ~Contains(Lower(item_query), Lower(datasets[dfs0_key].items[k]))

BadMatKey == mat_key \notin DOMAIN mat_data

MissingProfileStruct == ~BadMatKey /\ "profileStruct" \notin DOMAIN mat_data[mat_key]

InvalidBin ==
    /\ ~BadMatKey
    /\ ~MissingProfileStruct
    /\ LET n == Len(mat_data[mat_key].profileStruct.Bins)
       IN  bin_index >= n \/ bin_index < -n

\* the observed extraction is running
InObsExtraction == pc \in {"mat_key", "profileStruct", "bin", "obs_series"}

\* C25: compare_speed_stats extracts the model series, then the observed
\* series, then aligns, then computes the statistics, and stops at the first
\* failure: with a bad dfs0_key or item the call raises (KeyError for the
\* key, ValueError for the item) without having looked into mat_data; once
\* the model series is there, a bad mat_key (KeyError), a missing
\* 'profileStruct' (KeyError) or an invalid bin (IndexError) is raised, the
\* first of them in that order, without align_series having been called;
\* align_series has a result, the ValueError of an unknown method included,
\* only after both extractions returned; and the statistics are those of
\* calc_stats(obs, mod) for obs the 'obs' column and mod the 'model' column
\* of the aligned table.
C25_StepsInOrder ==
    /\ (BadDfs0Key \/ BadItem) =>
          /\ pc \in {"dfs0_key", "ensure", "find", "raised"}
          /\ "md" \notin DOMAIN frame
          /\ ~ModelExtracted /\ ~ObsExtracted
          /\ aligned = NoResult /\ stats = NoResult
          /\ pc = "raised" =>
                /\ series.status = "raised"
                /\ series.error.type = (IF BadDfs0Key THEN "KeyError" ELSE "ValueError")
    /\ InObsExtraction => (ModelExtracted /\ ~ObsExtracted /\ aligned = NoResult)
    /\ (ModelExtracted /\ (BadMatKey \/ MissingProfileStruct \/ InvalidBin)) =>
          /\ InObsExtraction \/ pc = "raised"
          /\ ~ObsExtracted
          /\ aligned = NoResult /\ stats = NoResult
          /\ pc = "raised" =>
                /\ series.status = "raised"
                /\ series.error.type = (IF InvalidBin THEN "IndexError" ELSE "KeyError")
                /\ BadMatKey => series.error.about.key = mat_key
                /\ MissingProfileStruct => series.error.about.key = "profileStruct"
                /\ InvalidBin => series.error.about.bin = bin_index
    /\ aligned # NoResult =>
          /\ ModelExtracted /\ ObsExtracted
          /\ pc \in {"stats", "done", "raised"}
    /\ stats # NoResult =>
          /\ pc = "done"
          /\ aligned.status = "ok"
          /\ aligned_columns = <<"model", "obs">>
          /\ obs = [i \in 1..Len(aligned.rows) |-> aligned.rows[i].obs]
          /\ mod = [i \in 1..Len(aligned.rows) |-> aligned.rows[i].model]
          /\ stats = [status |-> "ok", value |-> calc_stats(obs, mod)]

\* a call that ran to its end on a table whose two columns differ, for a
\* dataset in decreasing time
C25_Witness ==
    /\ caller = "compare_speed_stats"
    /\ pc = "done"
    /\ Len(aligned.rows) = 2
    /\ obs # mod
    /\ datasets[dfs0_key].time = <<1, 0>>

\* a step of the call leaves what it was given as it was: the two
\* collections in every step, the two series once they are extracted, the
\* aligned table once it is built
InputsKept ==
    /\ datasets' = datasets
    /\ mat_data' = mat_data
    /\ ModelExtracted => s_model' = s_model
    /\ ObsExtracted => s_obs' = s_obs
    /\ aligned # NoResult => aligned' = aligned

\* the arrays calc_stats was given are the columns of the table, the rows
\* with a value that is not finite still in them
ArraysKept ==
    pc = "done" =>
        /\ Len(obs) = Len(aligned.rows) /\ Len(mod) = Len(aligned.rows)
        /\ \A i \in 1..Len(obs) : obs[i] = aligned.rows[i].obs /\ mod[i] = aligned.rows[i].model

\* C22 as stated: the calls leave their inputs as they were, and the values
\* of every returned series are the series' own, shared with no input.
C22_InputsKeptResultsFresh ==
    /\ [][InputsKept]_vars
    /\ [](ArraysKept /\ (series.status = "ok" => series_base = "fresh"))

\* C22: get_dfs0_speed_series, get_hg_speed_series, align_series, calc_stats
\* and compare_speed_stats leave their inputs unchanged, whether they return
\* or raise: no step of a call changes datasets, mat_data, the two extracted
\* series (their order included), the aligned table or the two arrays.
\* The model series is built from a copy of the dataset's column; the
\* observed series is a new Series whose values are either a copy or the
\* memory of the bin's Speed array.
C22_InputsKept ==
    /\ [][InputsKept]_vars
    /\ [](/\ ArraysKept
          /\ (series.status = "ok" /\ series.name = "model") => series_base = "fresh"
          /\ (series.status = "ok" /\ series.name = "obs") =>
                series_base \in {"fresh", "mat_data"})

\* a call that ran to its end on a model series in decreasing time and an
\* observed series that shares the memory of the bin: the table is in
\* increasing time, the model series as it was
C22_Witness ==
    /\ caller = "compare_speed_stats"
    /\ pc = "done"
    /\ series_base = "mat_data"
    /\ Len(s_model) = 2 /\ s_model[1].t > s_model[2].t
    /\ Len(aligned.rows) = 2 /\ aligned.rows[1].t < aligned.rows[2].t

----------------------------------------------------------------------------
(* Properties of the loaders. *)

\* the path at position i of the list can be read
Readable(i) == disk[file_list[i]].state = "file"

\* the key under which a loader stores the path at position i
KeyOf(loader, i) ==
    IF loader = "load_dfs0s_to_dataframe"
    THEN StemLower[file_list[i].name]
    ELSE file_list[i].name

\* what a loader makes of the file at position i
LoadedFrom(loader, i) ==
    LET content == disk[file_list[i]].content
    IN  CASE loader = "load_dfs0s" -> content
          [] loader = "load_mat_files" -> LoadedMat(content)
          [] loader = "load_dfs0s_to_dataframe" ->
                Dfs0File(KeyOf(loader, i), to_dataframe(content))

\* the entries of the result: the dict, or the files of the bundle
Entries(loader) ==
    IF loader = "load_dfs0s_to_dataframe"
    THEN (IF results["_files"].kind = "dict" THEN results["_files"].map ELSE <<>>)
    ELSE results

\* the lower-cased stems over which Dfs0Bundle.add stumbles
BundleNames == {"add", "_files"}

\* the path at position i is stored by the loader: it can be read and, for
\* load_dfs0s_to_dataframe, neither it nor a readable path before it has
\* replaced the dict of the bundle, and no readable path before it has hidden
\* the method add
Stored(loader, i) ==
    /\ Readable(i)
    /\ loader = "load_dfs0s_to_dataframe" =>
          /\ KeyOf(loader, i) # "_files"
          /\ \A j \in 1..(i - 1) : Readable(j) => KeyOf(loader, j) \notin BundleNames

\* one line is printed for every path, in list order, and says what became
\* of the path
EveryPathProcessed(loader) ==
    /\ Len(console) = Len(file_list)
    /\ \A i \in 1..Len(file_list) :
          /\ console[i].about = file_list[i]
          /\ console[i].kind =
                CASE disk[file_list[i]].state = "missing" -> "file not found"
                  [] Stored(loader, i) -> "loaded"
                  [] OTHER -> "error loading"

\* the dict of the bundle has been replaced by a file's wrapper: a readable
\* path has the stem "_files" and no readable path before it has hidden add
FilesReplaced(loader) ==
    /\ loader = "load_dfs0s_to_dataframe"
    /\ \E i \in 1..Len(file_list) :
          /\ Readable(i)
          /\ KeyOf(loader, i) = "_files"
          /\ \A j \in 1..(i - 1) : Readable(j) => KeyOf(loader, j) # "add"

\* C17 as stated: a loader returns for every list of paths, every path of
\* the list is processed, and the result holds exactly the files that were
\* read: one entry for every readable path, with what was read from it, and
\* no entry for any other path.  (Stated for the lists without a file named
\* like an attribute of the bundle.)
C17_ResultHoldsEveryReadFile ==
    \A loader \in Loaders :
        (/\ pc = ReturnedFrom(loader)
         /\ \A i \in 1..Len(file_list) : KeyOf(loader, i) \notin BundleNames) =>
            /\ EveryPathProcessed(loader)
            /\ \A i \in 1..Len(file_list) :
                  Readable(i) =>
                      /\ KeyOf(loader, i) \in DOMAIN Entries(loader)
                      /\ Entries(loader)[KeyOf(loader, i)] = LoadedFrom(loader, i)
            /\ \A k \in DOMAIN Entries(loader) :
                  \E i \in 1..Len(file_list) : Readable(i) /\ KeyOf(loader, i) = k

\* C17, amended: a loader never raises and stops only at the end of the list;
\* every path is processed in list order, a missing or unreadable one is
\* reported and skipped; the result has one entry per key (the base name; the
\* lower-cased stem for load_dfs0s_to_dataframe) of a stored path, holding
\* what was read from the last stored path with that key.  Every readable
\* path is stored, except that in load_dfs0s_to_dataframe a readable path
\* with the stem "_files", and every readable path after one with the stem
\* "add" or "_files", is reported as an error and not stored (and a stem
\* "_files" that is not after an "add" leaves the bundle without its dict of
\* files).
C17_ResultHoldsLastReadFilePerKey ==
    \A loader \in Loaders :
        /\ pc = loader => next_file \in 1..(Len(file_list) + 1)
        /\ pc = ReturnedFrom(loader) =>
            /\ next_file = Len(file_list) + 1
            /\ EveryPathProcessed(loader)
            /\ ~FilesReplaced(loader) =>
                  /\ DOMAIN Entries(loader) =
                        {KeyOf(loader, i) : i \in {j \in 1..Len(file_list) : Stored(loader, j)}}
                  /\ \A i \in 1..Len(file_list) :
                        (/\ Stored(loader, i)
                         /\ \A j \in (i + 1)..Len(file_list) :
                               Stored(loader, j) => KeyOf(loader, j) # KeyOf(loader, i)) =>
                            Entries(loader)[KeyOf(loader, i)] = LoadedFrom(loader, i)
            /\ FilesReplaced(loader) => results["_files"].kind = "Dfs0File"

\* a loader has returned from a list in which a readable path follows a
\* missing and an unreadable one, and two readable paths share a key: the
\* later paths are in the result
C17_Witness ==
    \E loader \in Loaders :
        /\ pc = ReturnedFrom(loader)
        /\ Len(file_list) = 3
        /\ \E i, j \in 1..2 :
              disk[file_list[i]] = Missing /\ disk[file_list[j]] = Unreadable
        /\ Readable(3)
        /\ KeyOf(loader, 3) \in DOMAIN Entries(loader)
        /\ Entries(loader)[KeyOf(loader, 3)] = LoadedFrom(loader, 3)

\* the keys of the datasets whose conversion to a table fails
FailingDatasets ==
    {k \in DOMAIN datasets : dataset_to_dataframe(datasets[k]).status = "raised"}

\* the field f of the struct obj is a time field whose conversion fails
FailingTime(obj, f) ==
    /\ NameLower[f] = "time"
    /\ matlab_datenum_to_datetime(obj.fields[f]).status = "raised"

RECURSIVE HasFailingTime(_)
\* a time field that convert_time_fields comes to, in obj or below it, fails
\* to convert
HasFailingTime(obj) ==
    CASE obj.kind = "struct" ->
            \E f \in DOMAIN obj.fields :
                \/ FailingTime(obj, f)
                \/ NameLower[f] # "time" /\ HasFailingTime(obj.fields[f])
      [] obj.kind = "array" /\ obj.of = "object" ->
            \E k \in 1..Len(obj.items) : HasFailingTime(obj.items[k])
      [] OTHER -> FALSE

RECURSIVE FailingTimesKept(_, _)
\* res, loaded from orig, has the structure of orig and holds every failing
\* time field as it was in the file
FailingTimesKept(orig, res) ==
    CASE orig.kind = "struct" ->
            /\ res.kind = "struct"
            /\ DOMAIN res.fields = DOMAIN orig.fields
            /\ \A f \in DOMAIN orig.fields :
                  /\ FailingTime(orig, f) => res.fields[f] = orig.fields[f]
                  /\ NameLower[f] # "time" => FailingTimesKept(orig.fields[f], res.fields[f])
      [] orig.kind = "array" /\ orig.of = "object" ->
            /\ res.kind = "array"
            /\ Len(res.items) = Len(orig.items)
            /\ \A k \in 1..Len(orig.items) : FailingTimesKept(orig.items[k], res.items[k])
      [] OTHER -> TRUE

\* the file at position i has a variable with a failing time field
FileHasFailingTime(i) ==
    /\ Readable(i)
    /\ \E v \in DOMAIN disk[file_list[i]].content :
          ~StartsWithDunder(v) /\ HasFailingTime(disk[file_list[i]].content[v])

\* C18 as stated: a dataset whose conversion fails makes dfs0_to_dataframes
\* raise, and a time field whose conversion fails makes convert_time_fields
\* raise (load_mat_files then reports the file as an error): no result omits
\* the failing dataset or holds the failing field unconverted.
C18_ConversionFailuresRaise ==
    /\ (pc = "dfs0_to_dataframes returned" /\ FailingDatasets # {}) =>
          frames.status = "raised"
    /\ pc = "load_mat_files returned" =>
          \A i \in 1..Len(file_list) :
              FileHasFailingTime(i) =>
                  /\ console[i].kind = "error loading"
                  /\ file_list[i].name \notin DOMAIN results

\* C18, amended: the two conversions swallow their failures.
\* dfs0_to_dataframes always returns: the result holds the table of every
\* dataset that converts and omits every dataset whose conversion fails, for
\* which one line is printed.  convert_time_fields never raises: a time field
\* whose conversion fails is left as it was, and load_mat_files reports the
\* file as loaded and stores it.
C18_ConversionFailuresSwallowed ==
    /\ pc = "dfs0_to_dataframes returned" =>
          /\ frames.status = "ok"
          /\ DOMAIN frames.value = DOMAIN datasets \ FailingDatasets
          /\ \A k \in DOMAIN frames.value :
                frames.value[k] = dataset_to_dataframe(datasets[k])
          /\ Len(console) = Cardinality(FailingDatasets)
          /\ \A k \in FailingDatasets :
                \E n \in 1..Len(console) : console[n] = Line("error converting", k)
    /\ pc = "load_mat_files returned" =>
          \A i \in 1..Len(file_list) :
              Readable(i) =>
                  /\ console[i].kind = "loaded"
                  /\ file_list[i].name \in DOMAIN results
                  /\ (\A j \in (i + 1)..Len(file_list) :
                         Readable(j) => file_list[j].name # file_list[i].name) =>
                        \A v \in DOMAIN results[file_list[i].name] :
                            FailingTimesKept(disk[file_list[i]].content[v],
                                             results[file_list[i].name][v])

\* dfs0_to_dataframes has returned without one of two datasets, or
\* load_mat_files has returned a file with a time field left unconverted
C18_Witness ==
    \/ /\ pc = "dfs0_to_dataframes returned"
       /\ Cardinality(FailingDatasets) = 1
       /\ Cardinality(DOMAIN frames.value) = 1
    \/ /\ pc = "load_mat_files returned"
       /\ file_list # <<>>
       /\ FileHasFailingTime(1)
       /\ results[file_list[1].name]["profileStruct"] =
             disk[file_list[1]].content["profileStruct"]

\* val is a 1-D array of date numbers that have a datetime
ValidDatenums(val) ==
    /\ val.kind = "array"
    /\ val.of = "float"
    /\ \A k \in 1..Len(val.items) : DatenumOk(val.items[k])

\* the datetimes of the date numbers of val: each date number less the 366
\* days between MATLAB's day 0 and 1-Jan-0001
DatetimesOf(val) ==
    Datetimes([k \in 1..Len(val.items) |-> Sub(val.items[k], Num(DatenumOffset))])

RECURSIVE EveryTimeConverted(_, _, _)
\* C20's reading of res, loaded from the value orig named name: a value named
\* 'Time' is a list of datetimes, at any depth; a value with another name
\* differs from orig only in what it holds under the name 'Time'
EveryTimeConverted(name, orig, res) ==
    CASE name = "Time" -> res.kind = "list" /\ res.of = "datetime"
      [] name # "Time" /\ orig.kind = "struct" ->
            /\ res.kind = "struct"
            /\ DOMAIN res.fields = DOMAIN orig.fields
            /\ \A f \in DOMAIN orig.fields :
                  EveryTimeConverted(f, orig.fields[f], res.fields[f])
      [] name # "Time" /\ orig.kind = "array" /\ orig.of = "object" ->
            /\ res.kind = "array"
            /\ Len(res.items) = Len(orig.items)
            /\ \A k \in 1..Len(orig.items) :
                  EveryTimeConverted("", orig.items[k], res.items[k])
      [] OTHER -> res = orig

RECURSIVE TimesAreDatenums(_, _)
\* every value named 'Time' in or below the value orig named name is a 1-D
\* array of date numbers that have a datetime, and no other name is 'time' in
\* lower case
TimesAreDatenums(name, orig) ==
    CASE name = "Time" -> ValidDatenums(orig)
      [] name # "Time" /\ name # "" /\ NameLower[name] = "time" -> FALSE
      [] OTHER ->
            CASE orig.kind = "struct" ->
                    \A f \in DOMAIN orig.fields : TimesAreDatenums(f, orig.fields[f])
              [] orig.kind = "array" /\ orig.of = "object" ->
                    \A k \in 1..Len(orig.items) : TimesAreDatenums("", orig.items[k])
              [] OTHER -> TRUE

RECURSIVE TimeFieldsConverted(_, _)
\* res, loaded from orig: in a struct, a field whose name is 'time' in lower
\* case holds the datetimes of its date numbers if it was a 1-D array of date
\* numbers that have a datetime, and is unchanged if not (nothing below it is
\* looked at); every other field, and every entry of an array of objects, is
\* treated in the same way; anything else is unchanged
TimeFieldsConverted(orig, res) ==
    CASE orig.kind = "struct" ->
            /\ res.kind = "struct"
            /\ DOMAIN res.fields = DOMAIN orig.fields
            /\ \A f \in DOMAIN orig.fields :
                  IF NameLower[f] = "time"
                  THEN res.fields[f] =
                          (IF ValidDatenums(orig.fields[f])
                           THEN DatetimesOf(orig.fields[f])
                           ELSE orig.fields[f])
                  ELSE TimeFieldsConverted(orig.fields[f], res.fields[f])
      [] orig.kind = "array" /\ orig.of = "object" ->
            /\ res.kind = "array"
            /\ Len(res.items) = Len(orig.items)
            /\ \A k \in 1..Len(orig.items) :
                  TimeFieldsConverted(orig.items[k], res.items[k])
      [] OTHER -> res = orig

\* the file at position i is the one load_mat_files has stored under its name
StoredMat(i) ==
    /\ Readable(i)
    /\ \A j \in (i + 1)..Len(file_list) :
          Readable(j) => file_list[j].name # file_list[i].name

\* the variables of a file that load_mat_files keeps
KeptVariables(i) == {v \in DOMAIN disk[file_list[i]].content : ~StartsWithDunder(v)}

\* C20 as stated: after load_mat_files returns, every value named 'Time' in
\* the loaded content of each file, at any depth, a top-level variable
\* included, is a list of datetimes, and nothing with another name has been
\* changed.  (Stated for the files in which every value named 'Time' is an
\* array of date numbers that have a datetime.)
C20_EveryTimeConverted ==
    pc = "load_mat_files returned" =>
        \A i \in 1..Len(file_list) :
            (/\ StoredMat(i)
             /\ \A v \in KeptVariables(i) :
                   TimesAreDatenums(v, disk[file_list[i]].content[v])) =>
                /\ DOMAIN results[file_list[i].name] = KeptVariables(i)
                /\ \A v \in KeptVariables(i) :
                      EveryTimeConverted(v, disk[file_list[i]].content[v],
                                         results[file_list[i].name][v])

\* C20, amended: after load_mat_files returns, the content stored for a file
\* has the file's variables without those whose name starts with "__"; in
\* every struct that is a variable, or is reached from one through fields not
\* named 'time' (in any case) and through arrays of structs, a field named
\* 'time' in any case ('Time', 'time') holds the datetimes of its date
\* numbers if it was a 1-D array of date numbers from 367 up, and is
\* unchanged if not; a top-level variable named 'Time' that is not a struct,
\* and everything else, is unchanged.
C20_TimeFieldsOfStructsConverted ==
    pc = "load_mat_files returned" =>
        \A i \in 1..Len(file_list) :
            StoredMat(i) =>
                /\ DOMAIN results[file_list[i].name] = KeptVariables(i)
                /\ \A v \in KeptVariables(i) :
                      TimeFieldsConverted(disk[file_list[i]].content[v],
                                          results[file_list[i].name][v])

\* load_mat_files has returned a file with a top-level variable Time and a
\* profileStruct holding an array of bins: the Time of the second bin, date
\* number 368, is the datetime of day 2; the first bin's field 'time' is
\* converted too; the variable Time is still the array of date numbers
C20_Witness ==
    /\ pc = "load_mat_files returned"
    /\ file_list = <<Path("d1", "m.mat")>>
    /\ "m.mat" \in DOMAIN results
    /\ "Time" \in DOMAIN results["m.mat"]
    /\ results["m.mat"]["Time"] = Floats(<<Num(DatenumOffset + 1)>>)
    /\ results["m.mat"]["profileStruct"].kind = "struct"
    /\ "Bins" \in DOMAIN results["m.mat"]["profileStruct"].fields
    /\ LET bins == results["m.mat"]["profileStruct"].fields["Bins"].items
       IN  /\ bins[2].fields["Time"] = Datetimes(<<Num(2)>>)
           /\ "time" \in DOMAIN bins[1].fields
           /\ bins[1].fields["time"] = Datetimes(<<Num(1), Fin(3, 2)>>)

\* the positions of the readable paths the loop has been through
ReadSoFar == {i \in 1..(next_file - 1) : Readable(i)}

\* a method of the bundle can be called: no attribute set by add hides it
Callable(b, attr) == attr \notin DOMAIN b

\* len(bundle): len(self._files), a TypeError when _files is a Dfs0File
BundleLen(b) ==
    IF b["_files"].kind = "dict"
    THEN [status |-> "ok", value |-> Cardinality(DOMAIN b["_files"].map)]
    ELSE Raised(Error("TypeError", [message |-> "object of type 'Dfs0File' has no len()"]))

\* bundle.keys(): self._files.keys()
BundleKeys(b) ==
    IF ~Callable(b, "keys")
    THEN Raised(Error("TypeError", [message |-> "not callable"]))
    ELSE IF b["_files"].kind = "dict"
    THEN [status |-> "ok", value |-> DOMAIN b["_files"].map]
    ELSE Raised(Error("AttributeError", [attribute |-> "keys"]))

\* bundle.items(): self._files.items(), here as the mapping itself
BundleItems(b) ==
    IF ~Callable(b, "items")
    THEN Raised(Error("TypeError", [message |-> "not callable"]))
    ELSE IF b["_files"].kind = "dict"
    THEN [status |-> "ok", value |-> b["_files"].map]
    ELSE Raised(Error("AttributeError", [attribute |-> "items"]))

\* iter(bundle): iter(self._files.values()), here as the set of the values
BundleIter(b) ==
    IF b["_files"].kind = "dict"
    THEN [status |-> "ok",
          value |-> {b["_files"].map[k] : k \in DOMAIN b["_files"].map}]
    ELSE Raised(Error("AttributeError", [attribute |-> "values"]))

\* the names bundle.add has been called with so far by load_dfs0s_to_dataframe
\* (the table of every file of the disk can be built)
NamesAdded == {KeyOf("load_dfs0s_to_dataframe", i) : i \in ReadSoFar}

\* the wrapper made by the most recent add with the name
LastAdded(name) ==
    LET from == {i \in ReadSoFar : KeyOf("load_dfs0s_to_dataframe", i) = name}
        last == CHOOSE i \in from : \A j \in from : j <= i
    IN  LoadedFrom("load_dfs0s_to_dataframe", last)

\* C28 as stated: after any sequence of Dfs0Bundle.add calls (those of
\* load_dfs0s_to_dataframe, with the lower-cased stems as names) len(bundle)
\* is the number of distinct names added, keys() are those names, iterating
\* yields for each name the Dfs0File of the most recent add with it, the
\* attribute of that name is that object, and add, keys, items, iteration
\* and len keep working whatever names were added.
C28_BundleKeepsWorking ==
    pc \in {"load_dfs0s_to_dataframe", "load_dfs0s_to_dataframe returned"} =>
        /\ Callable(results, "add")
        /\ BundleLen(results) = [status |-> "ok", value |-> Cardinality(NamesAdded)]
        /\ BundleKeys(results) = [status |-> "ok", value |-> NamesAdded]
        /\ BundleItems(results).status = "ok"
        /\ BundleIter(results) = [status |-> "ok", value |-> {LastAdded(n) : n \in NamesAdded}]
        /\ \A n \in NamesAdded : results[n] = LastAdded(n)

\* the loaders that return a dict keyed by the base name
DictLoaders == {"load_dfs0s", "load_mat_files"}

\* the loop is at a path that is missing or cannot be read
AtBadPath ==
    /\ pc \in DictLoaders
    /\ next_file <= Len(file_list)
    /\ ~Readable(next_file)

\* C29: load_dfs0s and load_mat_files key their result by the base name of
\* the path.  At every turn of the loop and at the return the keys of the
\* result are the base names of the readable paths gone through (so a subset
\* of the base names of the list), every key holds what was read from the
\* last readable path with that base name, and a turn on a path that is
\* missing or fails to read leaves the result as it was.
C29_KeyedByBaseName ==
    /\ [](\A loader \in DictLoaders :
            pc \in {loader, ReturnedFrom(loader)} =>
                /\ DOMAIN results = {file_list[i].name : i \in ReadSoFar}
                /\ DOMAIN results \subseteq {file_list[i].name : i \in 1..Len(file_list)}
                /\ \A k \in DOMAIN results :
                      LET from == {i \in ReadSoFar : file_list[i].name = k}
                          last == CHOOSE i \in from : \A j \in from : j <= i
                      IN  results[k] = LoadedFrom(loader, last))
    /\ [][AtBadPath => results' = results]_vars

\* a loader has returned from a list of three paths: a readable one, one of
\* the same base name that is missing or unreadable, and the first one
\* again: the result holds the file of the first path under the one key
C29_Witness ==
    /\ \E loader \in DictLoaders : pc = ReturnedFrom(loader)
    /\ Len(file_list) = 3
    /\ file_list[1].name = file_list[2].name
    /\ file_list[3] = file_list[1]
    /\ Readable(1) /\ ~Readable(2)
    /\ DOMAIN results = {file_list[1].name}
    /\ results[file_list[1].name] # <<>>

----------------------------------------------------------------------------
(* Properties of Dfs0File. *)

\* the column labels of the table
Labels == Range(dfs0file._df.columns)

\* the attribute names given to the columns so far
ColumnAttrs == DOMAIN dfs0file.attrs \ {AttrDatetime}

\* only lower-case letters, digits and single underscores, none of them
\* first or last
WellFormed(name) ==
    /\ \A k \in 1..Len(name) : name[k] \in Alnum \cup {"_"}
    /\ \A k \in 1..(Len(name) - 1) : ~(name[k] = "_" /\ name[k + 1] = "_")
    /\ name # <<>> => (name[1] # "_" /\ name[Len(name)] # "_")

\* the name is the base or the base with a suffix _2, _3, ...
BaseOrSuffixed(name, base) ==
    \/ name = base
    \/ \E i \in 2..(MaxColumns + 2) : name = base \o <<"_">> \o Decimal(i)

\* a turn of the loop gives the column a name that nothing on the object
\* has, and leaves every attribute set before as it was
ExposesUnderFreeName ==
    (pc = "Dfs0File" /\ frame'.col = frame.col + 1) =>
        \E name \in (DOMAIN dfs0file'.attrs) \ (DOMAIN dfs0file.attrs) :
            /\ DOMAIN dfs0file'.attrs = DOMAIN dfs0file.attrs \cup {name}
            /\ name \notin MemberNames
            /\ \A a \in DOMAIN dfs0file.attrs : dfs0file'.attrs[a] = dfs0file.attrs[a]
            /\ LET base == sanitize(dfs0file._df.columns[frame.col])
               IN  /\ WellFormed(base)
                   /\ BaseOrSuffixed(name, base)
                   /\ name # base => (base \in DOMAIN dfs0file.attrs \/ base \in MemberNames)
            /\ dfs0file'.parameters[dfs0file._df.columns[frame.col]] = name

\* C27: Dfs0File construction gives every column an attribute name of its
\* own.  Each turn of the loop adds one attribute, under a name that is
\* neither an attribute of the object already (datetime, parameters,
\* dataframe, get, show_parameters, an earlier column) nor changes one: the
\* name is the sanitized base name, or when that is in use the base name
\* suffixed _2, _3, ...; the base name holds only lower-case letters, digits
\* and single underscores and has no underscore first or last.  So there are
\* as many column attributes as columns exposed and datetime is the index.
C27_DistinctAttributeNames ==
    /\ [][ExposesUnderFreeName]_vars
    /\ [](pc \in {"Dfs0File", "Dfs0File constructed"} =>
            /\ Cardinality(ColumnAttrs) = frame.col - 1
            /\ ColumnAttrs = frame.used
            /\ ColumnAttrs \cap MemberNames = {}
            /\ dfs0file.attrs[AttrDatetime] = [kind |-> "Index", index |-> dfs0file._df.index])

\* a file of three columns, two whose names sanitize to the same name and
\* one named like the datetime attribute: the second has the suffix _2, the
\* third datetime_2
C27_Witness ==
    /\ pc = "Dfs0File constructed"
    /\ dfs0file._df.columns = <<<<"a">>, <<" ", "a", ":">>, <<"d", "a", "t", "e", "t", "i", "m", "e">>>>
    /\ dfs0file.parameters[<<" ", "a", ":">>] = <<"a", "_", "2">>
    /\ dfs0file.parameters[<<"d", "a", "t", "e", "t", "i", "m", "e">>] = <<"d", "a", "t", "e", "t", "i", "m", "e", "_", "2">>

\* the keys file[...] is tried with: the labels of the model and a name that
\* is nothing on the object
Keys == ColumnNames \cup {<<"b">>}

\* C23 as stated: for every column name c of the table parameters maps c to
\* an attribute name a, and file[c], file[a] and getattr(file, a) all return
\* the series of column c; a key that is neither an original name nor an
\* attribute name raises KeyError.  (Stated for tables whose column labels
\* differ.)
C23_ThreeWaysToTheColumn ==
    (/\ pc = "Dfs0File constructed"
     /\ Cardinality(Labels) = Len(dfs0file._df.columns)) =>
        /\ DOMAIN dfs0file.parameters = Labels
        /\ \A c \in Labels :
              LET a == dfs0file.parameters[c]
                  column == [status |-> "ok", value |-> ColumnOf(dfs0file._df, c)]
              IN  /\ GetItem(dfs0file, c) = column
                  /\ GetItem(dfs0file, a) = column
                  /\ GetAttr(dfs0file, a) = column.value
        /\ \A key \in Keys :
              (key \notin Labels /\ ~HasAttr(dfs0file, key)) =>
                  (GetItem(dfs0file, key).status = "raised"
                   /\ GetItem(dfs0file, key).error.type = "KeyError")

\* C23: for every column label c of the table parameters maps c to an
\* attribute name a, and file[c] and getattr(file, a) return df[c] (the
\* series of the column; the table of the columns labelled c when there are
\* several, a then being the name given to the last of them).  file[a]
\* returns the same unless a is itself the label of a column, which then is
\* what file[a] returns: the original names are looked up first.  A key that
\* is neither a label nor an attribute name raises KeyError.
C23_OriginalNameFirst ==
    pc = "Dfs0File constructed" =>
        /\ DOMAIN dfs0file.parameters = Labels
        /\ \A c \in Labels :
              LET a == dfs0file.parameters[c]
                  column == [status |-> "ok", value |-> ColumnOf(dfs0file._df, c)]
              IN  /\ a \in ColumnAttrs
                  /\ GetItem(dfs0file, c) = column
                  /\ GetAttr(dfs0file, a) = column.value
                  /\ GetItem(dfs0file, a) =
                        IF a \in Labels
                        THEN [status |-> "ok", value |-> ColumnOf(dfs0file._df, a)]
                        ELSE column
        /\ \A key \in Keys :
              (key \notin Labels /\ ~HasAttr(dfs0file, key)) =>
                  (GetItem(dfs0file, key).status = "raised"
                   /\ GetItem(dfs0file, key).error.type = "KeyError")

\* a file with the columns 'A' and 'a': 'A' is exposed as a and 'a' as a_2,
\* and file['a'] is the column 'a', not the column exposed as a
C23_Witness ==
    /\ pc = "Dfs0File constructed"
    /\ dfs0file._df.columns = <<<<"A">>, <<"a">>>>
    /\ dfs0file.parameters[<<"A">>] = <<"a">>
    /\ GetItem(dfs0file, <<"a">>).value.name = <<"a">>
    /\ GetAttr(dfs0file, <<"a">>).name = <<"A">>

----------------------------------------------------------------------------
(* Properties of plot_dfs0_items_stacked. *)

\* the request is rejected as it is: panels is given and is not a list of
\* non-empty lists, or panels is not given and item_names is None or empty
BadRequest ==
    IF plot_args.panels # None
    THEN \/ plot_args.panels.kind # "list"
         \/ \E k \in 1..Len(plot_args.panels.items) :
               \/ plot_args.panels.items[k].kind # "list"
               \/ plot_args.panels.items[k].items = <<>>
    ELSE plot_args.item_names = None \/ plot_args.item_names.items = <<>>

\* the panels of a request that is not rejected as it is
RequestedPanels ==
    IF plot_args.panels # None
    THEN [k \in 1..Len(plot_args.panels.items) |-> plot_args.panels.items[k].items]
    ELSE [k \in 1..Len(plot_args.item_names.items) |-> <<plot_args.item_names.items[k]>>]

\* the names of all the panels, in order
RequestedNames == Flatten(RequestedPanels)

\* the names that occur more than once across the panels
Duplicated ==
    {n \in Range(RequestedNames) :
        \E i, j \in 1..Len(RequestedNames) :
            i # j /\ RequestedNames[i] = n /\ RequestedNames[j] = n}

\* the names of the items of the dataset, in order
Available == [k \in 1..Len(plot_args.ds.items) |-> plot_args.ds.items[k].name]

\* the name is the name of no item
IsMissing(n) == n \notin Range(Available)

\* the panels whose items do not share one grouping key, by number (from 1)
MixedPanels ==
    {k \in 1..Len(RequestedPanels) :
        \E n, m \in Range(RequestedPanels[k]) :
            GroupKeyOf(plot_args.ds, n) # GroupKeyOf(plot_args.ds, m)}

\* the three checks of the names pass
NamesValid ==
    /\ ~BadRequest
    /\ Duplicated = {}
    /\ \A n \in Range(RequestedNames) : ~IsMissing(n)

PanelsError ==
    Raised(Error("ValueError",
        [message |-> "panels must be a list of non-empty lists of item names"]))

EmptyError == Raised(Error("ValueError", [message |-> "item_names cannot be empty"]))

\* what the call raises for the mixed panel k
MixedPanelError(k) ==
    Raised(Error("ValueError",
        [panel |-> k, message |-> "contains items with different quantities/units"]))

\* the data has not been read and no figure has been created
NothingRead == "arr" \notin DOMAIN frame /\ "figs" \notin DOMAIN frame

\* the three checks of the names, in their order, before any data is read
NamesCheckedFirst ==
    /\ BadRequest =>
          /\ pc \in {"panels", "raised"}
          /\ pc = "raised" =>
                plot_result = (IF plot_args.panels # None THEN PanelsError ELSE EmptyError)
    /\ (~BadRequest /\ Duplicated # {}) =>
          /\ pc \in {"panels", "duplicates", "raised"}
          /\ pc = "raised" =>
                plot_result = Raised(Error("ValueError", [duplicates |-> Duplicated]))
    /\ (~BadRequest /\ Duplicated = {} /\ ~NamesValid) =>
          /\ pc \in {"panels", "duplicates", "items", "raised"}
          /\ pc = "raised" =>
                plot_result = Raised(Error("ValueError",
                    [missing |-> SelectSeq(RequestedNames, IsMissing),
                     available |-> Available]))
    /\ ~NamesValid => NothingRead
    /\ pc \in {"panels", "duplicates", "items", "data"} => NothingRead

\* C30 as stated: the request is validated before any data is read or any
\* figure created, in the order: request empty or panels malformed,
\* duplicated names, missing names (all of them in one error, with the
\* available names), and a panel whose items do not share one grouping key
\* is rejected with its number.
C30_ValidatedBeforeReading ==
    /\ NamesCheckedFirst
    /\ (NamesValid /\ MixedPanels # {}) =>
          /\ pc # "panels plotted"
          /\ pc = "raised" =>
                /\ plot_result = MixedPanelError(Least(MixedPanels))
                /\ NothingRead

\* C30: the request is validated in the order: request empty or panels
\* malformed, duplicated names, missing names (all of them in one error,
\* with the available names); these three checks come before any data is
\* read or any figure created.  The panels are checked later, each at its
\* turn of the loop that creates the figures: the data has been read by then
\* (a dataset whose array has an unexpected shape raises that error instead),
\* and the call raises for the first panel whose items do not share one
\* grouping key, with its number, after the figures of the panels before it
\* have been created.
C30_NamesValidatedBeforeReading ==
    /\ NamesCheckedFirst
    /\ (NamesValid /\ time_and_matrix(plot_args.ds).status = "raised") =>
          /\ pc \in {"panels", "duplicates", "items", "data", "raised"}
          /\ pc = "raised" => plot_result = time_and_matrix(plot_args.ds)
    /\ (NamesValid /\ time_and_matrix(plot_args.ds).status = "ok") =>
          /\ pc \in {"panel", "panels plotted"} =>
                /\ frame.arr = time_and_matrix(plot_args.ds).arr
                /\ frame.figs = frame.pi - 1
                /\ \A k \in 1..(frame.pi - 1) : k \notin MixedPanels
          /\ pc = "panels plotted" => frame.figs = Len(RequestedPanels)
          /\ pc = "raised" =>
                /\ MixedPanels # {}
                /\ plot_result = MixedPanelError(Least(MixedPanels))
                /\ "arr" \in DOMAIN frame
                /\ frame.figs = Least(MixedPanels) - 1

\* a call raised for its second panel, a speed with a direction, after the
\* data was read and the figure of the first panel was created
C30_Witness ==
    /\ pc = "raised"
    /\ plot_args.panels = List(<<List(<<"d">>), List(<<"u", "r">>)>>)
    /\ plot_result = MixedPanelError(2)
    /\ frame.figs = 1

----------------------------------------------------------------------------
(* Properties of calc_stats. *)

\* calc_stats(obs, mod) has returned to a direct caller
StatsReturned == pc = "returned"

\* the record calc_stats returned
Result == stats.value

\* the keys of a full record
StatKeys == {"N", "Bias", "MAE", "RMSE", "Correlation", "R2", "NSE"}

\* the positions at which both arrays hold a finite value
FinitePairs == {i \in 1..Len(obs) : IsFinite(obs[i]) /\ IsFinite(mod[i])}

\* sums over the finite pairs of integer-valued arrays: x is observed, y model
PairCount == Cardinality(FinitePairs)

SumX == SumFn([i \in FinitePairs |-> obs[i].n])

SumY == SumFn([i \in FinitePairs |-> mod[i].n])

SumXX == SumFn([i \in FinitePairs |-> obs[i].n * obs[i].n])

SumYY == SumFn([i \in FinitePairs |-> mod[i].n * mod[i].n])

SumXY == SumFn([i \in FinitePairs |-> obs[i].n * mod[i].n])

SumD == SumFn([i \in FinitePairs |-> mod[i].n - obs[i].n])

SumAbsD == SumFn([i \in FinitePairs |-> Abs(mod[i].n - obs[i].n)])

SumDD == SumFn([i \in FinitePairs |-> (mod[i].n - obs[i].n) * (mod[i].n - obs[i].n)])

\* PairCount^2 times the variance of the observed and of the model values
VarX == PairCount * SumXX - SumX * SumX

VarY == PairCount * SumYY - SumY * SumY

\* PairCount^2 times their covariance
CovXY == PairCount * SumXY - SumX * SumY

\* the k-th finite pair's position
RECURSIVE KthOf(_, _)
KthOf(S, k) ==
    LET least == CHOOSE i \in S : \A j \in S : i <= j
    IN  IF k = 1 THEN least ELSE KthOf(S \ {least}, k - 1)

\* an array without the positions that are not finite pairs
OnlyFinitePairs(a) == [k \in 1..PairCount |-> a[KthOf(FinitePairs, k)]]

\* a call on two identical arrays
IdenticalCall == StatsReturned /\ obs = mod

\* the finite values of the observed array
FiniteObs == {obs[i] : i \in FinitePairs}

ExampleCall ==
    /\ s_model = ExampleModel /\ s_obs = ExampleObs
    /\ method = "inner" /\ resample = 0

\* the rows the worked example keeps: t0 and t2
ExampleRows ==
    <<[t |-> 0, model |-> Num(1), obs |-> Fin(11, 10)],
      [t |-> 2, model |-> Num(3), obs |-> Fin(29, 10)]>>

\* C5 as stated: the worked example gives 2 rows (t0 and t2), N=2 and
\* Bias = -0.05.
C5_ExampleBiasMinusFiveHundredths ==
    ExampleCall =>
        /\ Aligned => aligned = Returned(ExampleRows)
        /\ pc = "done" => Result.N = 2 /\ Result.Bias = Fin(-5, 100)

\* C5 as amended: the worked example gives 2 rows (t0 and t2), N=2 and
\* Bias = mean([1.0-1.1, 3.0-2.9]) = 0.
C5_ExampleBiasZero ==
    ExampleCall =>
        /\ Aligned => aligned = Returned(ExampleRows)
        /\ pc = "done" => Result.N = 2 /\ Result.Bias = Num(0)

\* C5 witness: the worked example, aligned and its statistics computed.
C5_Witness == ExampleCall /\ pc = "done" /\ Len(aligned.rows) = 2 /\ Result.N = 2

\* C6: N is the number of positions at which both values are finite; Bias,
\* MAE and RMSE are the mean of (model - observed), the mean of
\* |model - observed| and the square root of the mean of (model - observed)^2
\* over those positions; the record is the one of the arrays without the
\* other positions.
C6_StatsOverFinitePairs ==
    StatsReturned =>
        /\ Result.N = PairCount
        /\ Result = calc_stats(OnlyFinitePairs(obs), OnlyFinitePairs(mod))
        /\ PairCount > 0 =>
              /\ Result.Bias = Fin(SumD, PairCount)
              /\ Result.MAE = Fin(SumAbsD, PairCount)
              /\ Sq(Result.RMSE) = Fin(SumDD, PairCount)
              /\ Result.RMSE.n >= 0

\* C6 witness: a call with a NaN on one side, an infinity on the other and two
\* finite pairs with different errors.
C6_Witness ==
    /\ StatsReturned
    /\ PairCount = 2 /\ Len(obs) > 2
    /\ \E i \in 1..Len(obs) : IsNaN(obs[i]) /\ IsFinite(mod[i])
    /\ \E i, j \in FinitePairs : mod[i].n - obs[i].n # mod[j].n - obs[j].n

\* C7: on an empty pair of arrays, or a pair with no position at which both
\* values are finite, calc_stats returns the record whose only key is N, with
\* value 0.
C7_NoFinitePairCountOnly ==
    (StatsReturned /\ FinitePairs = {}) =>
        /\ stats.status = "ok"
        /\ DOMAIN Result = {"N"}
        /\ Result.N = 0

\* C7 witness: a call on arrays that hold finite values but no finite pair.
C7_Witness ==
    /\ StatsReturned /\ FinitePairs = {}
    /\ \E i \in 1..Len(obs) : IsFinite(obs[i])
    /\ \E i \in 1..Len(mod) : IsFinite(mod[i])
    /\ Result = [N |-> 0]

====
